---- MODULE Spec2Model ----
(***************************************************************************)
(* Model of the sandbox lifecycle engine of packages/agent-core/src/sandbox *)
(* (utils.ts, runner.ts, docker.ts, config.ts).                             *)
(*                                                                          *)
(* JavaScript runs one call stack at a time, so the model keeps an explicit *)
(* call stack of frames.  A top-level operation (build, dispose, register,  *)
(* unregister, ensureHandlers, an exit or a signal) starts only when the    *)
(* stack is empty; while it is not, the only step possible is the next      *)
(* statement of the frame on top.  Cleanup callbacks are caller code: the   *)
(* closure built by buildDockerRunSpec removes its container, a callback    *)
(* registered directly may return, throw, or call back into the registry   *)
(* or emit an event on a target.                                            *)
(***************************************************************************)
EXTENDS Integers, Sequences, FiniteSets, TLC

(* ------------------------------ bounds -------------------------------- *)

\* Invocations that buildDockerRunSpec may build in one run of the model.
MaxInvocations == 2
\* Cleanup callbacks registered directly through registerSandboxCleanupCallback.
MaxUserCallbacks == 1
\* Mock process-like targets besides the global process object.
MaxMocks == 1
\* Operations (top-level and those made from inside a callback) in one run.
MaxOps == 5

(* ----------------------------- constants ------------------------------ *)

\* utils.ts:96, exit code recorded by the SIGINT handler.
SigintExitCode == 130
\* utils.ts:118, exit code recorded by the SIGTERM handler.
SigtermExitCode == 143

\* exitCode of a target whose exit code is not a number (undefined).
Undefined == -1
\* An exit code set by the caller before any signal arrives.
PresetExitCode == 1

(* ------------------------------ universe ------------------------------ *)

\* The built invocations' cleanup closures (runner.ts:132) are 1..MaxInvocations;
\* directly registered callbacks are the ids above them.
Invocations == 1..MaxInvocations
UserCallbacks == (MaxInvocations + 1)..(MaxInvocations + MaxUserCallbacks)
Callbacks == Invocations \cup UserCallbacks

\* Target 0 is the global `process` (the default argument of
\* ensureSandboxProcessCleanupHandlers): it has kill and pid, and its exit()
\* emits the exit event and ends the process.  The others are mock ProcessLike
\* objects as in the tests: exit() records its argument and throws; kill and
\* pid are optional (hasKill).
RealProcess == 0
Mocks == 1..MaxMocks
Targets == {RealProcess} \cup Mocks

Events == {"exit", "SIGINT", "SIGTERM"}
Signals == {"SIGINT", "SIGTERM"}

VARIABLES
    cleanupCallbacks,     \* utils.ts:23, insertion-ordered Set as a sequence
    registeredProcesses,  \* utils.ts:24, WeakSet keyed by object identity
    cleanupInProgress,    \* utils.ts:25
    listeners,            \* listeners[t][e]: listeners the registry installed on t for e
    exitCode,             \* targetProcess.exitCode
    hasKill,              \* typeof kill === 'function' && typeof pid === 'number'
    exitedWith,           \* argument of the last exit() call on the target
    reraised,             \* signal of the last kill(pid, signal) call on the target
    stack,                \* the JavaScript call stack, top last
    exc,                  \* an exception is propagating
    procState,            \* "running" | "dead": the host process
    exiting,              \* process._exiting: the exit event has been emitted
    built,                \* invocations returned by buildDockerRunSpec
    disposed,             \* invocations for which disposeDockerRunSpec has returned
    runs,                 \* runs[c]: calls of callback c so far
    passSnap,             \* batch of the cleanup pass started last
    passRuns,             \* passRuns[c]: calls of c made by that pass
    passThrew,            \* a callback of that pass threw
    passes,               \* passes[t][e]: passes started by t's handler of e
    disposeRuns,          \* disposeRuns[i]: calls of i's cleanup made by dispose
    ensureCalls,          \* ensureCalls[t]: calls of ensureSandboxProcessCleanupHandlers(t)
    ops,                  \* operations started so far
    config,               \* the SandboxConfig passed to resolveSandboxConfig / prepareDockerSandbox
    host,                 \* process.getuid / process.getgid of the host
    resolved,             \* outcome of resolveSandboxConfig(config)
    prepare,              \* the activation of prepareDockerSandbox
    child,                \* the subprocess of runDockerCommand and its local state
    sandbox,              \* buildDockerRunSpec: the resolved configuration passed in
    options,              \* buildDockerRunSpec: the SandboxRunOptions passed in
    dockerArgs,           \* DockerRunSpec.args
    redactedArgs,         \* DockerRunSpec.redactedArgs
    registrations         \* what the calls of register and unregister so far amount to

\* The state of the cleanup registry and of the targets it is installed on.
registryVars ==
    <<cleanupCallbacks, registeredProcesses, cleanupInProgress, listeners,
      exitCode, hasKill, exitedWith, reraised, stack, exc, procState, exiting,
      built, disposed, runs, passSnap, passRuns, passThrew, passes,
      disposeRuns, ensureCalls, ops>>

\* The state of configuration resolution, of prepareDockerSandbox and of the
\* argument vector of buildDockerRunSpec.
flowVars == <<config, host, resolved, prepare, child>>
argVars == <<sandbox, options, dockerArgs, redactedArgs>>

vars == <<registryVars, flowVars, argVars, registrations>>

(* ------------------------------ helpers ------------------------------- *)

SeqToSet(s) == {s[i] : i \in 1..Len(s)}

\* Mutant of SetAdd: adding an element that is present moves it to the end.
SetAddMovesLast(s, c) == Append(SelectSeq(s, LAMBDA x : x # c), c)

\* Set.prototype.add: appends unless present (an element keeps its position).
SetAdd(s, c) == IF c \in SeqToSet(s) THEN s ELSE Append(s, c)

\* Set.prototype.delete.
SetDelete(s, c) == SelectSeq(s, LAMBDA x : x # c)

\* The record kept of the calls of registerSandboxCleanupCallback and
\* unregisterSandboxCleanupCallback: order lists the registered actions by
\* the call that registered each of them last; again holds the registered
\* actions that a further call named while they were registered, back those
\* that were registered anew after being unregistered, gone those that are
\* unregistered now, during those that a call registered while a cleanup
\* pass was in progress.
NoRegistrations ==
    [order |-> <<>>, again |-> {}, back |-> {}, gone |-> {}, during |-> {}]

\* The record after registerSandboxCleanupCallback(c), utils.ts:43-45, called
\* with a pass in progress or not.
Registered(h, c, inPass) ==
    IF \E j \in 1..Len(h.order) : h.order[j] = c
    THEN [h EXCEPT !.again = @ \cup {c}]
    ELSE [order |-> h.order \o <<c>>,
          again |-> h.again,
          back |-> IF c \in h.gone THEN h.back \cup {c} ELSE h.back,
          gone |-> h.gone \ {c},
          during |-> IF inPass THEN h.during \cup {c} ELSE h.during]

\* The record after unregisterSandboxCleanupCallback(c), utils.ts:52-54.
Deregistered(h, c) ==
    IF \E j \in 1..Len(h.order) : h.order[j] = c
    THEN [order |-> SelectSeq(h.order, LAMBDA x : x # c),
          again |-> h.again \ {c},
          back |-> h.back \ {c},
          gone |-> h.gone \cup {c},
          during |-> h.during]
    ELSE h

\* A stack frame.  fn names the function, pc the statement to run next; t, ev
\* and cb are the target, event and callback it works on; batch is the local
\* `callbacks` array of runCleanup (what is left of it); left counts the
\* listeners emit has still to call; by tells who called a callback.
Frame(fn, pc, t, ev, cb, batch, left, by) ==
    [fn |-> fn, pc |-> pc, t |-> t, ev |-> ev, cb |-> cb,
     batch |-> batch, left |-> left, by |-> by]

Top == stack[Len(stack)]
Pop == SubSeq(stack, 1, Len(stack) - 1)
\* The stack with its top frame replaced by f.
SetTop(f) == Append(Pop, f)
\* The stack with the top frame replaced by f and g pushed on it.
SetTopPush(f, g) == Append(Append(Pop, f), g)

Idle == stack = <<>> /\ ~exc /\ procState = "running"
Running == stack # <<>> /\ ~exc /\ procState = "running"

HandlerFn(e) == CASE e = "exit" -> "onExit"
                  [] e = "SIGINT" -> "onSigint"
                  [] e = "SIGTERM" -> "onSigterm"

EmitFrame(t, e) == Frame("emit", "call", t, e, 0, <<>>, listeners[t][e], "")
HandlerFrame(t, e) == Frame(HandlerFn(e), "cleanup", t, e, 0, <<>>, 0, "")
CallbackFrame(c, by) == Frame("callback", "body", 0, "", c, <<>>, 0, by)

(* -------------------------------- Init -------------------------------- *)

RegistryInit ==
    /\ cleanupCallbacks = <<>>
    /\ registeredProcesses = {}
    /\ cleanupInProgress = FALSE
    /\ listeners = [t \in Targets |-> [e \in Events |-> 0]]
    /\ exitCode \in [Targets -> {Undefined, PresetExitCode}]
    /\ hasKill \in {h \in [Targets -> BOOLEAN] : h[RealProcess]}
    /\ exitedWith = [t \in Targets |-> Undefined]
    /\ reraised = [t \in Targets |-> ""]
    /\ stack = <<>>
    /\ exc = FALSE
    /\ procState = "running"
    /\ exiting = FALSE
    /\ built = {}
    /\ disposed = {}
    /\ runs = [c \in Callbacks |-> 0]
    /\ passSnap = <<>>
    /\ passRuns = [c \in Callbacks |-> 0]
    /\ passThrew = FALSE
    /\ passes = [t \in Targets |-> [e \in Events |-> 0]]
    /\ disposeRuns = [i \in Invocations |-> 0]
    /\ ensureCalls = [t \in Targets |-> 0]
    /\ ops = 0
    /\ registrations = NoRegistrations

(* ------------------------- values of the inputs ------------------------ *)

\* A string is the sequence of its symbols.  A symbol is one character
\* ("/", "=", " ", "NUL" for U+0000) or a run of ordinary characters that no
\* check of the code looks into ("alpine", "512m", "--env").
\* An optional field is <<>> when undefined and <<v>> when it holds v.
Absent == <<>>
Some(v) == <<v>>

\* config.ts:130-177, the ?? operator: the field's value, or d when undefined.
OrElse(o, d) == IF o = Absent THEN d ELSE o[1]

\* A number is kept in thousandths (0.5 is 500); finite = FALSE is NaN.
Num(m) == [finite |-> TRUE, milli |-> m]
Whole(n) == [finite |-> TRUE, milli |-> n * 1000]
NaN == [finite |-> FALSE, milli |-> 0]

\* config.ts:237 and 252, Number.isInteger.
IsInteger(n) == n.finite /\ n.milli % 1000 = 0
\* config.ts:249, Number.isFinite.
IsFinite(n) == n.finite
\* config.ts:240, 249 and 252, n <= 0 (false for NaN).
NotPositive(n) == n.finite /\ n.milli <= 0

\* String.prototype.startsWith for a one-character prefix.
StartsWith(s, c) == Len(s) > 0 /\ s[1] = c
\* Some symbol of s is in set.
HasAny(s, set) == \E k \in 1..Len(s) : s[k] \in set

(* --------------------- defaults (config.ts:106-115) -------------------- *)

DEFAULT_LIMITS == [memory |-> <<"512m">>, cpus |-> Num(500), pidsLimit |-> Whole(50)]
DEFAULT_CONTAINER_PATH == <<"/", "workspace">>
DEFAULT_PREFLIGHT_TIMEOUT_MS == 10000
DEFAULT_PULL_TIMEOUT_MS == 300000
DEFAULT_CONTAINER_NAME_PREFIX == <<"accomplish-sandbox">>

\* config.ts:141, the network mode of a configuration that names none.
DefaultNetwork == "none"
\* config.ts:9 and 142, the two network modes.
NetworkModes == {"none", "bridge"}

\* config.ts:231, the characters /[\s\0]/ matches.
WhitespaceOrNul == {" ", "NUL"}
\* config.ts:262, the symbols [a-zA-Z0-9] and [a-zA-Z0-9_.-] match.
AlphaNumeric == {"a", "accomplish", "sandbox", "accomplish-sandbox"}
NameSymbols == AlphaNumeric \cup {"_", ".", "-"}

(* ------------------- resolveSandboxConfig (config.ts) ------------------ *)

\* The outcome of a function that returns a value or throws.
Returned(v) == [state |-> "returned", error |-> "", value |-> <<v>>]
Thrown(e) == [state |-> "thrown", error |-> e, value |-> <<>>]
NotCalled == [state |-> "none", error |-> "", value |-> <<>>]

\* Mutant of GetHostUserMapping: without a usable host identity a default
\* mapping is returned.
GetHostUserMappingFallsBack(h) ==
    IF ~h.lookup \/ h.uid = 0 THEN Returned([uid |-> Whole(1), gid |-> Whole(1)])
    ELSE Returned([uid |-> Whole(h.uid), gid |-> Whole(h.gid)])

\* config.ts:191-209, getHostUserMapping on host h.
GetHostUserMapping(h) ==
    IF ~h.lookup THEN Thrown("uid/gid mapping not available")
    ELSE IF h.uid = 0 THEN Thrown("refusing to run as root")
    ELSE Returned([uid |-> Whole(h.uid), gid |-> Whole(h.gid)])

\* Mutant of UserOf: the host identity is looked up whatever the
\* configuration says.
UserOfHostAlways(c, h) ==
    IF GetHostUserMapping(h).state = "thrown" \/ c.user = Absent
      THEN GetHostUserMapping(h)
      ELSE Returned(c.user[1])

\* config.ts:130, config.user ?? getHostUserMapping().
UserOf(c, h) ==
    IF c.user = Absent THEN GetHostUserMapping(h) ELSE Returned(c.user[1])

\* config.ts:227-234, validateDockerImageName: "" when the image is accepted.
ValidateDockerImageName(image) ==
    IF image = <<>> THEN "image must be a non-empty string"
    ELSE IF HasAny(image, WhitespaceOrNul) THEN "image must not contain whitespace or NUL"
    ELSE ""

\* Mutant of ValidateUserMapping: the superuser identifier is accepted.
ValidateUserMappingAllowsRoot(user) ==
    IF ~IsInteger(user.uid) \/ ~IsInteger(user.gid) THEN "uid/gid must be integers"
    ELSE IF user.uid.milli < 0 \/ user.gid.milli < 0 THEN "uid/gid must be > 0"
    ELSE ""

\* config.ts:236-243, validateUserMapping.
ValidateUserMapping(user) ==
    IF ~IsInteger(user.uid) \/ ~IsInteger(user.gid) THEN "uid/gid must be integers"
    ELSE IF NotPositive(user.uid) \/ NotPositive(user.gid) THEN "uid/gid must be > 0"
    ELSE ""

\* config.ts:245-255, validateResourceLimits.
ValidateResourceLimits(limits) ==
    IF limits.memory = <<>> THEN "memory must be a non-empty string"
    ELSE IF ~IsFinite(limits.cpus) \/ NotPositive(limits.cpus)
      THEN "cpus must be a positive number"
    ELSE IF ~IsInteger(limits.pidsLimit) \/ NotPositive(limits.pidsLimit)
      THEN "pidsLimit must be a positive integer"
    ELSE ""

\* config.ts:257-265, validateContainerNamePrefix.
ValidateContainerNamePrefix(prefix) ==
    IF prefix = <<>> THEN "containerNamePrefix must be a non-empty string"
    ELSE IF prefix[1] \notin AlphaNumeric
            \/ \E k \in 1..Len(prefix) : prefix[k] \notin NameSymbols
      THEN "containerNamePrefix contains invalid characters"
    ELSE ""

\* path.resolve of a host path (POSIX): a relative path is taken from the
\* working directory /cwd of the host process; then the path is normalised:
\* empty segments and "." segments are dropped, a ".." segment (the symbols
\* ".", "." or the one symbol "..") drops the segment before it, and no slash
\* ends the result but that of the root.
PathResolve(p) ==
    LET abs == IF StartsWith(p, "/") THEN p ELSE <<"/", "cwd", "/">> \o p
        Close(seg, done) ==
            IF seg = <<>> \/ seg = <<".">> THEN done
            ELSE IF seg = <<".", ".">> \/ seg = <<"..">>
              THEN SubSeq(done, 1, Len(done) - 1)
            ELSE Append(done, seg)
        RECURSIVE Walk(_, _, _)
        Walk(rest, seg, done) ==
            IF rest = <<>> THEN Close(seg, done)
            ELSE IF Head(rest) = "/" THEN Walk(Tail(rest), <<>>, Close(seg, done))
            ELSE Walk(Tail(rest), Append(seg, Head(rest)), done)
        RECURSIVE Join(_)
        Join(segs) ==
            IF segs = <<>> THEN <<>> ELSE <<"/">> \o Head(segs) \o Join(Tail(segs))
        kept == Walk(abs, <<>>, <<>>)
    IN IF kept = <<>> THEN <<"/">> ELSE Join(kept)

\* config.ts:133-137, the limits with the defaults applied.
ResourcesOf(c) ==
    [memory |-> OrElse(c.resources.memory, DEFAULT_LIMITS.memory),
     cpus |-> OrElse(c.resources.cpus, DEFAULT_LIMITS.cpus),
     pidsLimit |-> OrElse(c.resources.pidsLimit, DEFAULT_LIMITS.pidsLimit)]

\* config.ts:141
NetworkOf(c) == OrElse(c.network, DefaultNetwork)

\* config.ts:149-150, a host path that is undefined or empty gives ''.
HostPathOf(c) ==
    IF OrElse(c.mount.hostPath, <<>>) = <<>> THEN <<>>
    ELSE PathResolve(c.mount.hostPath[1])

\* config.ts:167-179, the configuration returned when every check passed.
ResolvedConfig(c, user) ==
    [enabled |-> TRUE,
     image |-> c.image,
     network |-> NetworkOf(c),
     resources |-> ResourcesOf(c),
     user |-> user,
     mount |-> [hostPath |-> HostPathOf(c),
                containerPath |-> OrElse(c.mount.containerPath, DEFAULT_CONTAINER_PATH),
                readOnly |-> OrElse(c.mount.readOnly, FALSE)],
     workdir |-> OrElse(c.workdir, OrElse(c.mount.containerPath, DEFAULT_CONTAINER_PATH)),
     env |-> OrElse(c.env, <<>>),
     preflightTimeoutMs |-> OrElse(c.preflightTimeoutMs, DEFAULT_PREFLIGHT_TIMEOUT_MS),
     pullTimeoutMs |-> OrElse(c.pullTimeoutMs, DEFAULT_PULL_TIMEOUT_MS),
     containerNamePrefix |-> OrElse(c.containerNamePrefix, DEFAULT_CONTAINER_NAME_PREFIX)]

\* config.ts:123-180, resolveSandboxConfig on host h: the checks in the order
\* of the code, the first that fails throws.
ResolveSandboxConfig(c, h) ==
    IF ~c.enabled THEN Thrown("called with sandbox disabled")
    ELSE IF ValidateDockerImageName(c.image) # ""
      THEN Thrown(ValidateDockerImageName(c.image))
    ELSE IF UserOf(c, h).state = "thrown" THEN UserOf(c, h)
    ELSE IF ValidateUserMapping(UserOf(c, h).value[1]) # ""
      THEN Thrown(ValidateUserMapping(UserOf(c, h).value[1]))
    ELSE IF ValidateResourceLimits(ResourcesOf(c)) # ""
      THEN Thrown(ValidateResourceLimits(ResourcesOf(c)))
    ELSE IF NetworkOf(c) \notin NetworkModes THEN Thrown("invalid sandbox network mode")
    ELSE IF ValidateContainerNamePrefix(
                OrElse(c.containerNamePrefix, DEFAULT_CONTAINER_NAME_PREFIX)) # ""
      THEN Thrown(ValidateContainerNamePrefix(
                OrElse(c.containerNamePrefix, DEFAULT_CONTAINER_NAME_PREFIX)))
    ELSE IF ~StartsWith(OrElse(c.mount.containerPath, DEFAULT_CONTAINER_PATH), "/")
      THEN Thrown("mount.containerPath must be an absolute container path")
    ELSE IF ~StartsWith(OrElse(c.workdir,
                               OrElse(c.mount.containerPath, DEFAULT_CONTAINER_PATH)), "/")
      THEN Thrown("workdir must be an absolute container path")
    ELSE Returned(ResolvedConfig(c, UserOf(c, h).value[1]))

(* ------------------------- inputs of resolve --------------------------- *)

\* Largest identifier and limit among the numbers tried.
MaxId == 1

\* The numbers tried for uid, gid, cpus and pidsLimit: the integers from -1,
\* one half, and NaN.
Numbers == {Whole(i) : i \in -1..MaxId} \cup {Num(500), NaN}
OptionalNumbers == {Absent} \cup {Some(n) : n \in Numbers}

\* config.ts:68, SandboxConfig.user.
Users == {Absent} \cup {Some([uid |-> u, gid |-> g]) : u \in Numbers, g \in Numbers}

\* config.ts:62, SandboxConfig.network (a caller may pass any string).
Networks == {Absent, Some("none"), Some("bridge"), Some("host")}

\* config.ts:192-193: a host without getuid/getgid, or one with both.
Hosts ==
    {[lookup |-> FALSE, uid |-> 0, gid |-> 0]}
      \cup {[lookup |-> TRUE, uid |-> u, gid |-> g] : u \in 0..MaxId, g \in 0..MaxId}
OrdinaryHost == [lookup |-> TRUE, uid |-> 1, gid |-> 1]

\* config.ts:54-87, a SandboxConfig that names an image and nothing else.
BaseConfig ==
    [enabled |-> TRUE,
     image |-> <<"alpine">>,
     network |-> Absent,
     resources |-> [memory |-> Absent, cpus |-> Absent, pidsLimit |-> Absent],
     user |-> Absent,
     mount |-> [hostPath |-> Absent, containerPath |-> Absent, readOnly |-> Absent],
     workdir |-> Absent,
     env |-> Absent,
     preflightTimeoutMs |-> Absent,
     pullTimeoutMs |-> Absent,
     containerNamePrefix |-> Absent]

\* BaseConfig and its variants with one of the other fields changed.
OtherFields ==
    {BaseConfig,
     [BaseConfig EXCEPT !.enabled = FALSE],
     [BaseConfig EXCEPT !.image = <<>>],
     [BaseConfig EXCEPT !.image = <<"alpine", " ", "latest">>],
     [BaseConfig EXCEPT !.resources.memory = Some(<<>>)],
     [BaseConfig EXCEPT !.containerNamePrefix = Some(<<"-", "a">>)],
     [BaseConfig EXCEPT !.mount.containerPath = Some(<<"workspace">>)],
     [BaseConfig EXCEPT !.workdir = Some(<<"work">>)]}

\* The configurations resolve is tried on.
Configs ==
    {[b EXCEPT !.user = u, !.network = n, !.resources.cpus = c,
               !.resources.pidsLimit = p] :
        b \in OtherFields, u \in Users, n \in Networks,
        c \in OptionalNumbers, p \in OptionalNumbers}

(* ------------------ runDockerCommand (docker.ts:71-112) ---------------- *)

\* Output chunks a subprocess may write, and how many of them per subprocess.
MaxChunks == 2
Chunks == {<<" ">>, <<"layer">>}

\* String.prototype.trim: without the whitespace at both ends.
RECURSIVE TrimStart(_)
TrimStart(s) == IF s # <<>> /\ Head(s) = " " THEN TrimStart(Tail(s)) ELSE s
RECURSIVE TrimEnd(_)
TrimEnd(s) ==
    IF s # <<>> /\ s[Len(s)] = " " THEN TrimEnd(SubSeq(s, 1, Len(s) - 1)) ELSE s
Trim(s) == TrimEnd(TrimStart(s))

\* docker.ts:102-103, Buffer.concat(chunks).toString('utf-8').
RECURSIVE Concat(_)
Concat(chunks) == IF chunks = <<>> THEN <<>> ELSE Head(chunks) \o Concat(Tail(chunks))

\* No subprocess has been started.
NoChild ==
    [cmd |-> "", image |-> <<>>, timeoutMs |-> 0, onProgress |-> FALSE,
     state |-> "none", timer |-> "none", killed |-> FALSE,
     events |-> <<>>,
     stdoutChunks |-> <<>>, stderrChunks |-> <<>>,
     result |-> [exitCode |-> 0, stdout |-> <<>>, stderr |-> <<>>]]

\* docker.ts:73-87, spawn('docker', [cmd, ..., image]) with the timer armed.
Spawned(cmd, image, timeoutMs, onProgress) ==
    [NoChild EXCEPT !.cmd = cmd, !.image = image, !.timeoutMs = timeoutMs,
                    !.onProgress = onProgress, !.state = "running",
                    !.timer = "armed"]

\* docker.ts:101, typeof code === 'number' ? code : 1.
ExitCodeOf(code) == OrElse(code, 1)

\* docker.ts:100-104, the result the close handler resolves with.
CloseResult(c, code) ==
    [exitCode |-> ExitCodeOf(code),
     stdout |-> Concat(c.stdoutChunks),
     stderr |-> Concat(c.stderrChunks)]

\* docker.ts:109, the result the error handler resolves with.
ErrorResult ==
    [exitCode |-> 1, stdout |-> <<>>, stderr |-> <<"Failed to start docker command">>]

\* docker.ts:72, new Promise((resolve) => ...): the first call of resolve
\* settles the promise, a later one changes nothing.
Resolve(c, result) == IF c.state = "settled" THEN c.result ELSE result

\* docker.ts:99 and 108, clearTimeout(timer): an armed timer is cancelled, one
\* that has fired or was cancelled stays so.
ClearTimeout(timer) == IF timer = "armed" THEN "cleared" ELSE timer

\* Mutant of ImageExists: any output at all counts.
ImageExistsAnyOutput(result) == result.stdout # <<>>

\* docker.ts:24, result.exitCode === 0 && result.stdout.trim().length > 0.
ImageExists(result) == result.exitCode = 0 /\ Len(Trim(result.stdout)) > 0

\* docker.ts:40, the pull failed.
PullFailed(result) == result.exitCode # 0

(* --------------- prepareDockerSandbox (runner.ts:51-73) ---------------- *)

\* The log argument: none, one that returns, or one that may throw.
Logs == {"none", "returns", "throws"}

\* prepareDockerSandbox has not been called.
PrepareIdle ==
    [pc |-> "idle", log |-> "none", error |-> "", ensured |-> FALSE,
     spawned |-> <<>>, exists |-> Absent, pullExit |-> Absent,
     timedOut |-> {}, uncaught |-> FALSE]

\* The configurations prepareDockerSandbox is tried on.
PrepareConfigs ==
    {c \in Configs :
        /\ c.network = Absent /\ c.resources = BaseConfig.resources
        /\ c.user \in {Absent, Some([uid |-> Whole(1), gid |-> Whole(1)]),
                        Some([uid |-> Whole(0), gid |-> Whole(1)])}
        /\ c.image # <<>> /\ c.containerNamePrefix = Absent
        /\ c.mount = BaseConfig.mount}

FlowIdle ==
    /\ config = BaseConfig
    /\ host = OrdinaryHost
    /\ resolved = NotCalled
    /\ prepare = PrepareIdle
    /\ child = NoChild

(* ------------ the argument vector of buildDockerRunSpec ---------------- *)

\* The strings of at most n symbols of set S.
StringsUpTo(S, n) == UNION {[1..k -> S] : k \in 0..n}

\* Most entries of options.env and of sandbox.env.
MaxEnv == 1
\* Most arguments of the command.
MaxArgs == 2

\* runner.ts:123, the keys tried: empty, plain, an array index, with '=' and
\* with NUL.
EnvKeys ==
    {<<>>, <<"K">>, <<"J">>, <<"1">>, <<"=">>, <<"K", "=", "J">>, <<"NUL">>,
     <<"K", "NUL">>}
EnvValues == {<<"v">>, <<"w", "=", "w">>}

\* An entry of an environment object; isString is typeof value === 'string'
\* (runner.ts:116; a ProcessEnv value may be undefined).
StringEntries == {[key |-> k, value |-> v, isString |-> TRUE] : k \in EnvKeys, v \in EnvValues}
UndefinedEntries == {[key |-> k, value |-> <<>>, isString |-> FALSE] : k \in EnvKeys}

\* Index a is less than index b: both are canonical, so the shorter is the
\* smaller, and of two of equal length the one with the smaller digit where
\* they first differ.
IndexBefore(a, b) ==
    LET digits == <<"0", "1", "2", "3", "4", "5", "6", "7", "8", "9">>
        ValueOf(d) == CHOOSE v \in 1..10 : digits[v] = d
    IN \/ Len(a) < Len(b)
       \/ /\ Len(a) = Len(b)
          /\ \E k \in 1..Len(a) :
                /\ \A j \in 1..(k - 1) : a[j] = b[j]
                /\ ValueOf(a[k]) < ValueOf(b[k])

\* The key is an array index: the canonical decimal string (each digit a
\* symbol of its own, no leading zero but for "0") of an integer from 0 to
\* 4294967294.  Object.entries (runner.ts:115 and 122) and object spread
\* (runner.ts:114-119) go through such keys first, in ascending order.
IsArrayIndex(key) ==
    /\ key # <<>>
    /\ \A k \in 1..Len(key) :
          key[k] \in {"0", "1", "2", "3", "4", "5", "6", "7", "8", "9"}
    /\ Len(key) = 1 \/ key[1] # "0"
    /\ ~IndexBefore(<<"4", "2", "9", "4", "9", "6", "7", "2", "9", "4">>, key)

\* Key a comes before key b in an object that holds both, b being the one
\* added later.
EnumeratedBefore(a, b) == IsArrayIndex(b) => (IsArrayIndex(a) /\ IndexBefore(a, b))

\* An object enumerates its own keys with the array indices first, in
\* ascending order, then the other strings in insertion order: the
\* environments of at most n entries of set E, as sequences with distinct
\* keys in the order of enumeration.
EnvsUpTo(E, n) ==
    {env \in StringsUpTo(E, n) :
        /\ \A j, k \in 1..Len(env) : j # k => env[j].key # env[k].key
        /\ \A j, k \in 1..Len(env) :
              j < k => EnumeratedBefore(env[j].key, env[k].key)}

\* runner.ts:114-118, the entries of options.env whose value is a string.
OnlyStrings(env) == SelectSeq(env, LAMBDA e : e.isString)

\* An object with entry e assigned: a key already present keeps its position;
\* a new key that is an array index goes after the smaller indices and before
\* every other key, any other new key goes last.
Assigned(env, e) ==
    IF \E k \in 1..Len(env) : env[k].key = e.key
      THEN [k \in 1..Len(env) |-> IF env[k].key = e.key THEN e ELSE env[k]]
      ELSE LET before == SelectSeq(env, LAMBDA x : EnumeratedBefore(x.key, e.key))
               after == SelectSeq(env, LAMBDA x : ~EnumeratedBefore(x.key, e.key))
           IN before \o <<e>> \o after

\* Object spread, { ...a, ...b }.
RECURSIVE Spread(_, _)
Spread(a, b) == IF b = <<>> THEN a ELSE Spread(Assigned(a, Head(b)), Tail(b))

\* runner.ts:113-120
MergedEnv(optionsEnv, sandboxEnv) == Spread(OnlyStrings(optionsEnv), sandboxEnv)

\* Mutant of EnvKeyAllowed: only the empty key is skipped.
EnvKeyAllowedNonEmpty(key) == key # <<>>

\* runner.ts:123, the keys that are not skipped.
EnvKeyAllowed(key) ==
    key # <<>> /\ "=" \notin SeqToSet(key) /\ "NUL" \notin SeqToSet(key)

\* runner.ts:126, `${key}=${value}`.
EnvToken(e) == e.key \o <<"=">> \o e.value

\* runner.ts:122-127
RECURSIVE EnvArgs(_)
EnvArgs(env) ==
    IF env = <<>> THEN <<>>
    ELSE (IF EnvKeyAllowed(Head(env).key)
            THEN <<(<<"--env">>), EnvToken(Head(env))>>
            ELSE <<>>) \o EnvArgs(Tail(env))

\* path.basename on a POSIX host: what follows the last slash, trailing
\* slashes apart.
RECURSIVE StripTrailingSlashes(_)
StripTrailingSlashes(p) ==
    IF p # <<>> /\ p[Len(p)] = "/" THEN StripTrailingSlashes(SubSeq(p, 1, Len(p) - 1))
    ELSE p
RECURSIVE AfterLastSlash(_)
AfterLastSlash(p) == IF "/" \in SeqToSet(p) THEN AfterLastSlash(Tail(p)) ELSE p
Basename(p) == AfterLastSlash(StripTrailingSlashes(p))

\* config.ts:220-225, toContainerCommand.
ToContainerCommand(command) ==
    IF "/" \in SeqToSet(command) \/ "\\" \in SeqToSet(command)
      THEN Basename(command)
      ELSE command

\* String(n) of a number kept in thousandths: the integer part, then, for a
\* fraction, the point and its decimal digits up to the last one that is not
\* zero (0.25 is "0.25", 0.05 is "0.05", 0.5 is "0.5").
NumberString(n) ==
    IF ~n.finite THEN <<"NaN">>
    ELSE IF n.milli % 1000 = 0 THEN <<ToString(n.milli \div 1000)>>
    ELSE LET a == IF n.milli < 0 THEN 0 - n.milli ELSE n.milli
             f == a % 1000
             d1 == ToString(f \div 100)
             d2 == ToString((f \div 10) % 10)
             d3 == ToString(f % 10)
         IN (IF n.milli < 0 THEN <<"-">> ELSE <<>>)
              \o <<ToString(a \div 1000), ".">>
              \o (IF f % 10 # 0 THEN <<d1, d2, d3>>
                  ELSE IF f % 100 # 0 THEN <<d1, d2>>
                  ELSE <<d1>>)

\* utils.ts:33-36, createSandboxContainerName: the i-th draw of randomBytes.
CreateSandboxContainerName(prefix, i) == prefix \o <<"-", "hex", ToString(i)>>

\* runner.ts:87-111, the arguments before the environment flags.
FixedArgs(sb, opt, i) ==
    << <<"run">>, <<"--rm">>,
       <<"--name">>, CreateSandboxContainerName(sb.containerNamePrefix, i),
       <<"--user">>, NumberString(sb.user.uid) \o <<":">> \o NumberString(sb.user.gid),
       <<"--memory">>, sb.resources.memory,
       <<"--cpus">>, NumberString(sb.resources.cpus),
       <<"--pids-limit">>, NumberString(sb.resources.pidsLimit),
       <<"--network">>, <<sb.network>>,
       <<"--volume">>, PathResolve(opt.cwd) \o <<":">> \o sb.mount.containerPath
                         \o (IF sb.mount.readOnly THEN <<":ro">> ELSE <<":rw">>),
       <<"--workdir">>, sb.workdir >>

\* runner.ts:92-130, the argument vector of the i-th invocation.
DockerArgs(sb, opt, i) ==
    FixedArgs(sb, opt, i)
      \o EnvArgs(MergedEnv(opt.env, sb.env))
      \o <<sb.image, ToContainerCommand(opt.command)>>
      \o opt.args

\* utils.ts:158-160, `${key}=<redacted>` for the token after --env.
RedactedToken(next) ==
    (IF "=" \in SeqToSet(next)
       THEN SubSeq(next, 1, (CHOOSE k \in 1..Len(next) :
                                next[k] = "=" /\ \A j \in 1..(k - 1) : next[j] # "=") - 1)
       ELSE next) \o <<"=", "<redacted>">>

\* utils.ts:152-166, the loop from position index on: after --env the next
\* token, when there is one, is replaced and skipped; with none, --env is
\* pushed again by line 165.
RECURSIVE RedactFrom(_, _)
RedactFrom(args, index) ==
    IF index > Len(args) THEN <<>>
    ELSE IF args[index] = <<"--env">>
      THEN IF index + 1 <= Len(args)
             THEN <<args[index], RedactedToken(args[index + 1])>>
                    \o RedactFrom(args, index + 2)
             ELSE <<args[index], args[index]>> \o RedactFrom(args, index + 1)
    ELSE <<args[index]>> \o RedactFrom(args, index + 1)

\* utils.ts:150-168
RedactDockerArgsForLogging(args) == RedactFrom(args, 1)

(* ----------------------- inputs of the build --------------------------- *)

\* A resolved configuration with the defaults and an explicit user.
ResolvedBase ==
    ResolveSandboxConfig(
        [BaseConfig EXCEPT !.user = Some([uid |-> Whole(1), gid |-> Whole(1)])],
        OrdinaryHost).value[1]

\* The resolved configurations the build is tried on: any non-empty string
\* is a valid memory limit.
Sandboxes ==
    {[ResolvedBase EXCEPT !.env = e, !.resources.memory = m] :
        e \in EnvsUpTo(StringEntries, MaxEnv),
        m \in {<<"512m">>, <<"--env">>}}

\* runner.ts:17-26, the run options the build is tried on.
RunOptions ==
    [cwd : {<<"/", "work">>},
     command : {<<"sh">>, <<"/", "bin", "/", "sh">>},
     args : StringsUpTo({<<"--env">>, <<"K", "=", "v">>, <<"-c">>}, MaxArgs),
     env : EnvsUpTo(StringEntries \cup UndefinedEntries, MaxEnv)]

BaseOptions == [cwd |-> <<"/", "work">>, command |-> <<"sh">>, args |-> <<>>, env |-> <<>>]

ArgsIdle ==
    /\ sandbox = ResolvedBase
    /\ options = BaseOptions
    /\ dockerArgs = <<>>
    /\ redactedArgs = <<>>

Init == RegistryInit /\ FlowIdle /\ ArgsIdle

(* ------------------- registry operations (utils.ts) ------------------- *)

Zero == [c \in Callbacks |-> 0]

\* utils.ts:43-45
RegisterSandboxCleanupCallback(c) ==
    /\ Idle /\ ops < MaxOps
    /\ c \in UserCallbacks
    /\ cleanupCallbacks' = SetAdd(cleanupCallbacks, c)
    /\ registrations' = Registered(registrations, c, cleanupInProgress)
    /\ ops' = ops + 1
    /\ UNCHANGED <<registeredProcesses, cleanupInProgress, listeners, exitCode,
                   hasKill, exitedWith, reraised, stack, exc, procState, exiting,
                   built, disposed, runs, passSnap, passRuns,
                   passThrew, passes, disposeRuns, ensureCalls>>
    /\ UNCHANGED <<flowVars, argVars>>

\* utils.ts:52-54
UnregisterSandboxCleanupCallback(c) ==
    /\ Idle /\ ops < MaxOps
    /\ c \in UserCallbacks
    /\ cleanupCallbacks' = SetDelete(cleanupCallbacks, c)
    /\ registrations' = Deregistered(registrations, c)
    /\ ops' = ops + 1
    /\ UNCHANGED <<registeredProcesses, cleanupInProgress, listeners, exitCode,
                   hasKill, exitedWith, reraised, stack, exc, procState, exiting,
                   built, disposed, runs, passSnap, passRuns,
                   passThrew, passes, disposeRuns, ensureCalls>>
    /\ UNCHANGED <<flowVars, argVars>>

\* Mutant of AlreadyRegistered: targets compared by their field values.
AlreadyRegisteredByValue(t) ==
    \E u \in registeredProcesses :
        exitCode[u] = exitCode[t] /\ hasKill[u] = hasKill[t]

\* utils.ts:65, the early return of ensureSandboxProcessCleanupHandlers.
AlreadyRegistered(t) == t \in registeredProcesses

\* utils.ts:136-138, targetProcess.on(...) for the three events.
InstallListeners(l, t) == [l EXCEPT ![t] = [e \in Events |-> l[t][e] + 1]]

\* utils.ts:64-69 and 136-138 (the closures of lines 70-134 run as frames).
EnsureSandboxProcessCleanupHandlers(t) ==
    /\ Idle /\ ops < MaxOps
    /\ IF AlreadyRegistered(t)
         THEN UNCHANGED <<registeredProcesses, listeners>>
         ELSE /\ registeredProcesses' = registeredProcesses \cup {t}
              /\ listeners' = InstallListeners(listeners, t)
    /\ ensureCalls' = [ensureCalls EXCEPT ![t] = @ + 1]
    /\ ops' = ops + 1
    /\ UNCHANGED <<cleanupCallbacks, cleanupInProgress, exitCode, hasKill,
                   exitedWith, reraised, stack, exc, procState, exiting, built,
                   disposed, runs, passSnap, passRuns,
                   passThrew, passes, disposeRuns>>
    /\ UNCHANGED <<flowVars, argVars, registrations>>

(* --------------------- build and dispose (runner.ts) ------------------- *)

\* runner.ts:84-145: a fresh container name and cleanup closure, registered
\* at line 136, and the argument vector with its redacted copy.
BuildDockerRunSpec ==
    /\ Idle /\ ops < MaxOps
    /\ Cardinality(built) < MaxInvocations
    /\ LET i == Cardinality(built) + 1 IN
         /\ built' = built \cup {i}
         /\ dockerArgs' = DockerArgs(sandbox, options, i)
         /\ cleanupCallbacks' = SetAdd(cleanupCallbacks, i)
         /\ registrations' = Registered(registrations, i, cleanupInProgress)
         /\ redactedArgs' = RedactDockerArgsForLogging(DockerArgs(sandbox, options, i))
    /\ ops' = ops + 1
    /\ UNCHANGED <<registeredProcesses, cleanupInProgress, listeners, exitCode,
                   hasKill, exitedWith, reraised, stack, exc, procState, exiting,
                   disposed, runs, passSnap, passRuns,
                   passThrew, passes, disposeRuns, ensureCalls>>
    /\ UNCHANGED <<flowVars, sandbox, options>>

DisposeFrame(i) == Frame("dispose", "unregister", 0, "", i, <<>>, 0, "")

\* runner.ts:155, the call of disposeDockerRunSpec by the owner of the
\* invocation, who disposes it once.
DisposeDockerRunSpec(i) ==
    /\ Idle /\ ops < MaxOps
    /\ i \in built \ disposed
    /\ disposed' = disposed \cup {i}
    /\ stack' = <<DisposeFrame(i)>>
    /\ ops' = ops + 1
    /\ UNCHANGED <<cleanupCallbacks, registeredProcesses, cleanupInProgress,
                   listeners, exitCode, hasKill, exitedWith, reraised, exc,
                   procState, exiting, built, runs, passSnap, passRuns,
                   passThrew, passes, disposeRuns, ensureCalls>>
    /\ UNCHANGED <<flowVars, argVars, registrations>>

\* Mutant of Unregistered: dispose leaves the action registered.
UnregisteredNothing(s, i) == s

\* runner.ts:156, unregisterSandboxCleanupCallback(spec.cleanup).
Unregistered(s, i) == SetDelete(s, i)

\* runner.ts:156
DisposeUnregister ==
    /\ Running /\ Top.fn = "dispose" /\ Top.pc = "unregister"
    /\ cleanupCallbacks' = Unregistered(cleanupCallbacks, Top.cb)
    /\ registrations' = Deregistered(registrations, Top.cb)
    /\ stack' = SetTop([Top EXCEPT !.pc = "cleanup"])
    /\ UNCHANGED <<registeredProcesses, cleanupInProgress, listeners, exitCode,
                   hasKill, exitedWith, reraised, exc, procState, exiting, built,
                   disposed, runs, passSnap, passRuns, ops,
                   passThrew, passes, disposeRuns, ensureCalls>>
    /\ UNCHANGED <<flowVars, argVars>>

\* runner.ts:157
DisposeCleanup ==
    /\ Running /\ Top.fn = "dispose" /\ Top.pc = "cleanup"
    /\ stack' = SetTopPush([Top EXCEPT !.pc = "return"], CallbackFrame(Top.cb, "dispose"))
    /\ UNCHANGED <<cleanupCallbacks, registeredProcesses, cleanupInProgress,
                   listeners, exitCode, hasKill, exitedWith, reraised, exc,
                   procState, exiting, built, disposed, runs, passSnap, passRuns,
                   ops,
                   passThrew, passes, disposeRuns, ensureCalls>>
    /\ UNCHANGED <<flowVars, argVars, registrations>>

\* runner.ts:158
DisposeReturn ==
    /\ Running /\ Top.fn = "dispose" /\ Top.pc = "return"
    /\ stack' = Pop
    /\ UNCHANGED <<cleanupCallbacks, registeredProcesses, cleanupInProgress,
                   listeners, exitCode, hasKill, exitedWith, reraised, exc,
                   procState, exiting, built, disposed, runs, passSnap, passRuns,
                   ops,
                   passThrew, passes, disposeRuns, ensureCalls>>
    /\ UNCHANGED <<flowVars, argVars, registrations>>

(* ------------------ event delivery and the handlers ------------------- *)

\* The test harness emits an event on a mock target (EventEmitter.emit calls
\* the listeners installed for it).
Emit(t, e) ==
    /\ Idle /\ ops < MaxOps
    /\ t \in Mocks
    /\ stack' = <<EmitFrame(t, e)>>
    /\ ops' = ops + 1
    /\ UNCHANGED <<cleanupCallbacks, registeredProcesses, cleanupInProgress,
                   listeners, exitCode, hasKill, exitedWith, reraised, exc,
                   procState, exiting, built, disposed, runs, passSnap, passRuns,
                   passThrew, passes, disposeRuns, ensureCalls>>
    /\ UNCHANGED <<flowVars, argVars, registrations>>

\* The operating system delivers SIGINT or SIGTERM to the host process: its
\* listeners run, or with none installed the default disposition ends it.
Signal(sig) ==
    /\ Idle /\ ops < MaxOps
    /\ ops' = ops + 1
    /\ IF listeners[RealProcess][sig] = 0
         THEN procState' = "dead" /\ stack' = stack
         ELSE procState' = procState /\ stack' = <<EmitFrame(RealProcess, sig)>>
    /\ UNCHANGED <<cleanupCallbacks, registeredProcesses, cleanupInProgress,
                   listeners, exitCode, hasKill, exitedWith, reraised, exc,
                   exiting, built, disposed, runs, passSnap, passRuns,
                   passThrew, passes, disposeRuns, ensureCalls>>
    /\ UNCHANGED <<flowVars, argVars, registrations>>

ExitFrame == Frame("exit", "emit", RealProcess, "exit", 0, <<>>, 0, "")

\* The host process ends normally (the event loop drains): the exit event is
\* emitted and the process ends.
NormalExit ==
    /\ Idle /\ ops < MaxOps
    /\ ops' = ops + 1
    /\ stack' = <<ExitFrame>>
    /\ UNCHANGED <<cleanupCallbacks, registeredProcesses, cleanupInProgress,
                   listeners, exitCode, hasKill, exitedWith, reraised, exc,
                   procState, exiting, built, disposed, runs, passSnap, passRuns,
                   passThrew, passes, disposeRuns, ensureCalls>>
    /\ UNCHANGED <<flowVars, argVars, registrations>>

\* emit: call the next listener of the event, or return when none is left.
EmitStep ==
    /\ Running /\ Top.fn = "emit"
    /\ stack' = IF Top.left > 0
                  THEN SetTopPush([Top EXCEPT !.left = @ - 1],
                                  HandlerFrame(Top.t, Top.ev))
                  ELSE Pop
    /\ UNCHANGED <<cleanupCallbacks, registeredProcesses, cleanupInProgress,
                   listeners, exitCode, hasKill, exitedWith, reraised, exc,
                   procState, exiting, built, disposed, runs, passSnap, passRuns,
                   ops,
                   passThrew, passes, disposeRuns, ensureCalls>>
    /\ UNCHANGED <<flowVars, argVars, registrations>>

IsHandler(f) == f.fn \in {"onExit", "onSigint", "onSigterm"}

\* utils.ts:71-73, the guard of runCleanup.
CleanupGuard(inProgress) == inProgress

\* Mutant of CleanupBatch: the loop starts at the second callback.
CleanupBatchSkipsFirst(s) == IF s = <<>> THEN s ELSE Tail(s)

\* utils.ts:76, const callbacks = Array.from(cleanupCallbacks).
CleanupBatch(s) == s

RunCleanupFrame(b) == Frame("runCleanup", "loop", 0, "", 0, b, 0, "")

\* utils.ts:89, 93, 115 with 70-76: the handler calls runCleanup, which returns
\* at once under the guard or sets the flag and snapshots the callbacks.
HandlerRunCleanup ==
    /\ Running /\ IsHandler(Top) /\ Top.pc = "cleanup"
    /\ LET next == IF Top.fn = "onExit" THEN "return" ELSE "exitCode" IN
       IF CleanupGuard(cleanupInProgress)
         THEN /\ stack' = SetTop([Top EXCEPT !.pc = next])
              /\ UNCHANGED <<cleanupInProgress, passSnap, passRuns, passThrew, passes>>
         ELSE /\ cleanupInProgress' = TRUE
              /\ passSnap' = CleanupBatch(cleanupCallbacks)
              /\ passRuns' = Zero
              /\ passThrew' = FALSE
              /\ passes' = [passes EXCEPT ![Top.t][Top.ev] = @ + 1]
              /\ stack' = SetTopPush([Top EXCEPT !.pc = next],
                                     RunCleanupFrame(CleanupBatch(cleanupCallbacks)))
    /\ UNCHANGED <<cleanupCallbacks, registeredProcesses, listeners, exitCode,
                   hasKill, exitedWith, reraised, exc, procState, exiting, built,
                   disposed, runs, ops, disposeRuns, ensureCalls>>
    /\ UNCHANGED <<flowVars, argVars, registrations>>

\* Mutant of RemainingBatch: the loop passes over the callbacks that are no
\* longer registered.
RemainingBatchRegistered(batch, pending) ==
    SelectSeq(batch, LAMBDA x : x \in SeqToSet(pending))

\* utils.ts:77, for (const callback of callbacks): the loop goes through the
\* copy made at line 76, whatever the Set holds by now.
RemainingBatch(batch, pending) == batch

\* Mutant of FlagAfterLoop: the flag stays set when a callback threw.
FlagAfterLoopKeptOnThrow(threw) == threw

\* utils.ts:85, cleanupInProgress = false after the loop, whether or not a
\* callback threw (each exception was caught at 80-82).
FlagAfterLoop(threw) == FALSE

\* utils.ts:77-85: call the next callback of the batch; after the last one
\* clear the flag and return.
RunCleanupLoop ==
    /\ Running /\ Top.fn = "runCleanup"
    /\ IF RemainingBatch(Top.batch, cleanupCallbacks) # <<>>
         THEN /\ LET rest == RemainingBatch(Top.batch, cleanupCallbacks) IN
                   stack' = SetTopPush([Top EXCEPT !.batch = Tail(rest)],
                                       CallbackFrame(Head(rest), "pass"))
              /\ UNCHANGED cleanupInProgress
         ELSE /\ cleanupInProgress' = FlagAfterLoop(passThrew)
              /\ stack' = Pop
    /\ UNCHANGED <<cleanupCallbacks, registeredProcesses, listeners, exitCode,
                   hasKill, exitedWith, reraised, exc, procState, exiting, built,
                   disposed, runs, passSnap, passRuns, ops,
                   passThrew, passes, disposeRuns, ensureCalls>>
    /\ UNCHANGED <<flowVars, argVars, registrations>>

\* utils.ts:88-90, onExit returns.
OnExitReturn ==
    /\ Running /\ Top.fn = "onExit" /\ Top.pc = "return"
    /\ stack' = Pop
    /\ UNCHANGED <<cleanupCallbacks, registeredProcesses, cleanupInProgress,
                   listeners, exitCode, hasKill, exitedWith, reraised, exc,
                   procState, exiting, built, disposed, runs, passSnap, passRuns,
                   ops,
                   passThrew, passes, disposeRuns, ensureCalls>>
    /\ UNCHANGED <<flowVars, argVars, registrations>>

IsSignalHandler(f) == f.fn \in {"onSigint", "onSigterm"}

\* utils.ts:96 and 118.
SignalExitCode(sig) == IF sig = "SIGINT" THEN SigintExitCode ELSE SigtermExitCode

\* Mutant of RecordedExitCode: the signal's code replaces one already set.
RecordedExitCodeOverwrites(code, sig) == SignalExitCode(sig)

\* utils.ts:95-97 and 117-119.
RecordedExitCode(code, sig) == IF code = Undefined THEN SignalExitCode(sig) ELSE code

HandlerSetExitCode ==
    /\ Running /\ IsSignalHandler(Top) /\ Top.pc = "exitCode"
    /\ exitCode' = [exitCode EXCEPT ![Top.t] = RecordedExitCode(@, Top.ev)]
    /\ stack' = SetTop([Top EXCEPT !.pc = "removeListener"])
    /\ UNCHANGED <<cleanupCallbacks, registeredProcesses, cleanupInProgress,
                   listeners, hasKill, exitedWith, reraised, exc, procState,
                   exiting, built, disposed, runs, passSnap, passRuns, ops,
                   passThrew, passes, disposeRuns, ensureCalls>>
    /\ UNCHANGED <<flowVars, argVars, registrations>>

\* Mutant of RemoveListener: the handler keeps its listener.
RemoveListenerKeeps(l, t, e) == l

\* utils.ts:100 and 122, targetProcess.removeListener(signal, handler).
RemoveListener(l, t, e) == [l EXCEPT ![t][e] = IF @ > 0 THEN @ - 1 ELSE 0]

HandlerRemoveListener ==
    /\ Running /\ IsSignalHandler(Top) /\ Top.pc = "removeListener"
    /\ listeners' = RemoveListener(listeners, Top.t, Top.ev)
    /\ stack' = SetTop([Top EXCEPT !.pc = "kill"])
    /\ UNCHANGED <<cleanupCallbacks, registeredProcesses, cleanupInProgress,
                   exitCode, hasKill, exitedWith, reraised, exc, procState,
                   exiting, built, disposed, runs, passSnap, passRuns, ops,
                   passThrew, passes, disposeRuns, ensureCalls>>
    /\ UNCHANGED <<flowVars, argVars, registrations>>

\* utils.ts:102 and 124.
CanReraise(t) == hasKill[t]

\* utils.ts:104 and 126, the signal passed to kill.
ReraiseSignal(sig) == sig

\* Mutant of AfterKill: no return, the handler goes on to exit.
AfterKillFallsThrough(f) == SetTop([f EXCEPT !.pc = "exit"])

\* utils.ts:105 and 127, the return after a kill that did not throw: the
\* stack once handler frame f has returned.
AfterKill(f) == Pop

\* utils.ts:102-109 and 124-131: without kill or pid go on to exit; otherwise
\* kill(pid, signal) either throws (caught, go on to exit) or succeeds and the
\* handler returns.  A signal the host process sends itself with no listener
\* left for it ends the process.
HandlerKill ==
    /\ Running /\ IsSignalHandler(Top) /\ Top.pc = "kill"
    /\ IF ~CanReraise(Top.t)
         THEN /\ stack' = SetTop([Top EXCEPT !.pc = "exit", !.by = "noKill"])
              /\ UNCHANGED <<reraised, procState>>
         ELSE \/ /\ stack' = SetTop([Top EXCEPT !.pc = "exit", !.by = "killThrew"])
                 /\ UNCHANGED <<reraised, procState>>
              \/ /\ reraised' = [reraised EXCEPT ![Top.t] = ReraiseSignal(Top.ev)]
                 /\ IF Top.t = RealProcess /\ listeners[Top.t][ReraiseSignal(Top.ev)] = 0
                      THEN procState' = "dead" /\ stack' = <<>>
                      ELSE procState' = procState
                           /\ stack' = AfterKill([Top EXCEPT !.by = "killed"])
    /\ UNCHANGED <<cleanupCallbacks, registeredProcesses, cleanupInProgress,
                   listeners, exitCode, hasKill, exitedWith, exc, exiting, built,
                   disposed, runs, passSnap, passRuns, ops,
                   passThrew, passes, disposeRuns, ensureCalls>>
    /\ UNCHANGED <<flowVars, argVars, registrations>>

\* utils.ts:111 and 133, targetProcess.exit(targetProcess.exitCode): a mock's
\* exit throws, the host process's exit emits the exit event and ends it.
HandlerExit ==
    /\ Running /\ IsSignalHandler(Top) /\ Top.pc = "exit"
    /\ exitedWith' = [exitedWith EXCEPT ![Top.t] = exitCode[Top.t]]
    /\ IF Top.t = RealProcess
         THEN stack' = SetTopPush([Top EXCEPT !.pc = "never"], ExitFrame) /\ exc' = exc
         ELSE stack' = Pop /\ exc' = TRUE
    /\ UNCHANGED <<cleanupCallbacks, registeredProcesses, cleanupInProgress,
                   listeners, exitCode, hasKill, reraised, procState, exiting,
                   built, disposed, runs, passSnap, passRuns, ops,
                   passThrew, passes, disposeRuns, ensureCalls>>
    /\ UNCHANGED <<flowVars, argVars, registrations>>

\* process.exit and the normal end of the host process: emit the exit event
\* once, then end the process.
ProcessExit ==
    /\ Running /\ Top.fn = "exit"
    /\ IF Top.pc = "emit" /\ ~exiting
         THEN /\ exiting' = TRUE
              /\ stack' = SetTopPush([Top EXCEPT !.pc = "end"],
                                     EmitFrame(RealProcess, "exit"))
              /\ UNCHANGED procState
         ELSE /\ procState' = "dead"
              /\ stack' = <<>>
              /\ UNCHANGED exiting
    /\ UNCHANGED <<cleanupCallbacks, registeredProcesses, cleanupInProgress,
                   listeners, exitCode, hasKill, exitedWith, reraised, exc, built,
                   disposed, runs, passSnap, passRuns, ops,
                   passThrew, passes, disposeRuns, ensureCalls>>
    /\ UNCHANGED <<flowVars, argVars, registrations>>

(* --------------------------- cleanup callbacks ------------------------- *)

\* The call of callback c is counted when its body starts.
CountRun(f) ==
    /\ runs' = [runs EXCEPT ![f.cb] = @ + 1]
    /\ passRuns' = IF f.by = "pass" THEN [passRuns EXCEPT ![f.cb] = @ + 1]
                                    ELSE passRuns
    /\ disposeRuns' = IF f.by = "dispose" THEN [disposeRuns EXCEPT ![f.cb] = @ + 1]
                                          ELSE disposeRuns
    /\ UNCHANGED passSnap

AtBody == Running /\ Top.fn = "callback" /\ Top.pc = "body"

\* runner.ts:132-134, the cleanup closure of an invocation: dockerRmForceSync
\* (docker.ts:52-57) removes the container and returns.  A directly registered
\* callback may return as well.
CallbackReturns ==
    /\ AtBody
    /\ CountRun(Top)
    /\ stack' = Pop
    /\ UNCHANGED <<cleanupCallbacks, registeredProcesses, cleanupInProgress,
                   listeners, exitCode, hasKill, exitedWith, reraised, exc,
                   procState, exiting, built, disposed, ops,
                   passThrew, passes, ensureCalls>>
    /\ UNCHANGED <<flowVars, argVars, registrations>>

\* A directly registered callback throws (passThrew notes that an action of
\* the pass failed).
CallbackThrows ==
    /\ AtBody /\ Top.cb \in UserCallbacks
    /\ CountRun(Top)
    /\ stack' = Pop
    /\ exc' = TRUE
    /\ passThrew' = (passThrew \/ Top.by = "pass")
    /\ UNCHANGED <<cleanupCallbacks, registeredProcesses, cleanupInProgress,
                   listeners, exitCode, hasKill, exitedWith, reraised, procState,
                   exiting, built, disposed, ops, passes, ensureCalls>>
    /\ UNCHANGED <<flowVars, argVars, registrations>>

\* A directly registered callback registers (utils.ts:43-45) or unregisters
\* (utils.ts:52-54) a callback and returns.
CallbackRegisters(c, add) ==
    /\ AtBody /\ Top.cb \in UserCallbacks /\ ops < MaxOps
    /\ c \in UserCallbacks
    /\ CountRun(Top)
    /\ cleanupCallbacks' = IF add THEN SetAdd(cleanupCallbacks, c)
                                  ELSE SetDelete(cleanupCallbacks, c)
    /\ registrations' = IF add THEN Registered(registrations, c, cleanupInProgress)
                               ELSE Deregistered(registrations, c)
    /\ stack' = Pop
    /\ ops' = ops + 1
    /\ UNCHANGED <<registeredProcesses, cleanupInProgress, listeners, exitCode,
                   hasKill, exitedWith, reraised, exc, procState, exiting, built,
                   disposed,
                   passThrew, passes, ensureCalls>>
    /\ UNCHANGED <<flowVars, argVars>>

\* A directly registered callback builds an invocation (runner.ts:84-145),
\* whose cleanup closure is registered at line 136, and returns.
CallbackBuilds ==
    /\ AtBody /\ Top.cb \in UserCallbacks /\ ops < MaxOps
    /\ Cardinality(built) < MaxInvocations
    /\ CountRun(Top)
    /\ LET i == Cardinality(built) + 1 IN
         /\ built' = built \cup {i}
         /\ dockerArgs' = DockerArgs(sandbox, options, i)
         /\ cleanupCallbacks' = SetAdd(cleanupCallbacks, i)
         /\ registrations' = Registered(registrations, i, cleanupInProgress)
         /\ redactedArgs' = RedactDockerArgsForLogging(DockerArgs(sandbox, options, i))
    /\ stack' = Pop
    /\ ops' = ops + 1
    /\ UNCHANGED <<registeredProcesses, cleanupInProgress, listeners, exitCode,
                   hasKill, exitedWith, reraised, exc, procState, exiting,
                   disposed, passThrew, passes, ensureCalls>>
    /\ UNCHANGED <<flowVars, sandbox, options>>

\* A directly registered callback disposes an invocation (runner.ts:155).
CallbackDisposes(i) ==
    /\ AtBody /\ Top.cb \in UserCallbacks /\ ops < MaxOps
    /\ i \in built \ disposed
    /\ CountRun(Top)
    /\ disposed' = disposed \cup {i}
    /\ stack' = SetTopPush([Top EXCEPT !.pc = "return"], DisposeFrame(i))
    /\ ops' = ops + 1
    /\ UNCHANGED <<cleanupCallbacks, registeredProcesses, cleanupInProgress,
                   listeners, exitCode, hasKill, exitedWith, reraised, exc,
                   procState, exiting, built,
                   passThrew, passes, ensureCalls>>
    /\ UNCHANGED <<flowVars, argVars, registrations>>

\* A directly registered callback emits an event on a target: a trigger raised
\* from inside cleanup work.
CallbackEmits(t, e) ==
    /\ AtBody /\ Top.cb \in UserCallbacks /\ ops < MaxOps
    /\ CountRun(Top)
    /\ stack' = SetTopPush([Top EXCEPT !.pc = "return"], EmitFrame(t, e))
    /\ ops' = ops + 1
    /\ UNCHANGED <<cleanupCallbacks, registeredProcesses, cleanupInProgress,
                   listeners, exitCode, hasKill, exitedWith, reraised, exc,
                   procState, exiting, built, disposed,
                   passThrew, passes, ensureCalls>>
    /\ UNCHANGED <<flowVars, argVars, registrations>>

\* The callback returns after the call it made has returned.
CallbackResumes ==
    /\ Running /\ Top.fn = "callback" /\ Top.pc = "return"
    /\ stack' = Pop
    /\ UNCHANGED <<cleanupCallbacks, registeredProcesses, cleanupInProgress,
                   listeners, exitCode, hasKill, exitedWith, reraised, exc,
                   procState, exiting, built, disposed, runs, passSnap, passRuns,
                   ops,
                   passThrew, passes, disposeRuns, ensureCalls>>
    /\ UNCHANGED <<flowVars, argVars, registrations>>

(* ------------------------------ exceptions ----------------------------- *)

Throwing == exc /\ procState = "running"

\* Mutant of RunCleanupCatch: no try/catch, the exception leaves runCleanup.
RunCleanupRethrows ==
    /\ Throwing /\ stack # <<>> /\ Top.fn = "runCleanup"
    /\ stack' = Pop
    /\ UNCHANGED <<cleanupCallbacks, registeredProcesses, cleanupInProgress,
                   listeners, exitCode, hasKill, exitedWith, reraised, exc,
                   procState, exiting, built, disposed, runs, passSnap, passRuns,
                   ops, passThrew, passes, disposeRuns, ensureCalls>>
    /\ UNCHANGED <<flowVars, argVars, registrations>>

\* utils.ts:78-82, try { callback() } catch {}: the exception of a callback
\* stops at the loop of runCleanup.
RunCleanupCatch ==
    /\ Throwing /\ stack # <<>> /\ Top.fn = "runCleanup"
    /\ exc' = FALSE
    /\ UNCHANGED <<cleanupCallbacks, registeredProcesses, cleanupInProgress,
                   listeners, exitCode, hasKill, exitedWith, reraised, stack,
                   procState, exiting, built, disposed, runs, passSnap, passRuns,
                   ops, passThrew, passes, disposeRuns, ensureCalls>>
    /\ UNCHANGED <<flowVars, argVars, registrations>>

\* An exception leaves every other frame (a callback it leaves has failed);
\* one that leaves a listener of the host process's exit event does not stop
\* the exit.
Propagate ==
    /\ Throwing /\ stack # <<>> /\ Top.fn # "runCleanup"
    /\ IF Top.fn = "exit"
         THEN exc' = FALSE /\ stack' = SetTop([Top EXCEPT !.pc = "end"])
         ELSE exc' = exc /\ stack' = Pop
    /\ passThrew' = (passThrew \/ (Top.fn = "callback" /\ Top.by = "pass"))
    /\ UNCHANGED <<cleanupCallbacks, registeredProcesses, cleanupInProgress,
                   listeners, exitCode, hasKill, exitedWith, reraised, procState,
                   exiting, built, disposed, runs, passSnap, passRuns, ops, passes, disposeRuns, ensureCalls>>
    /\ UNCHANGED <<flowVars, argVars, registrations>>

\* The caller of emit catches what the mock's exit threw (the test's
\* try { emit('SIGINT') } catch {}).
CallerCatches ==
    /\ Throwing /\ stack = <<>>
    /\ exc' = FALSE
    /\ UNCHANGED <<cleanupCallbacks, registeredProcesses, cleanupInProgress,
                   listeners, exitCode, hasKill, exitedWith, reraised, stack,
                   procState, exiting, built, disposed, runs, passSnap, passRuns,
                   ops,
                   passThrew, passes, disposeRuns, ensureCalls>>
    /\ UNCHANGED <<flowVars, argVars, registrations>>

(* ----------------------------- specification --------------------------- *)

\* The operations started from the top level: the caller's calls, the test
\* harness's emits, and the host process's signals and normal exit.
Operation ==
    \/ \E c \in Callbacks : RegisterSandboxCleanupCallback(c)
    \/ \E c \in Callbacks : UnregisterSandboxCleanupCallback(c)
    \/ \E t \in Targets : EnsureSandboxProcessCleanupHandlers(t)
    \/ BuildDockerRunSpec
    \/ \E i \in Invocations : DisposeDockerRunSpec(i)
    \/ \E t \in Mocks, e \in Events : Emit(t, e)
    \/ \E sig \in Signals : Signal(sig)
    \/ NormalExit

\* The next statement of the frame on top of the stack, with callbacks that
\* return or throw.
Step ==
    \/ DisposeUnregister
    \/ DisposeCleanup
    \/ DisposeReturn
    \/ EmitStep
    \/ HandlerRunCleanup
    \/ RunCleanupLoop
    \/ OnExitReturn
    \/ HandlerSetExitCode
    \/ HandlerRemoveListener
    \/ HandlerKill
    \/ HandlerExit
    \/ ProcessExit
    \/ CallbackReturns
    \/ CallbackThrows
    \/ RunCleanupCatch
    \/ Propagate
    \/ CallerCatches

\* Callbacks that call back into the registry or raise a trigger.
Reentry ==
    \/ \E c \in Callbacks, add \in BOOLEAN : CallbackRegisters(c, add)
    \/ CallbackBuilds
    \/ \E i \in Invocations : CallbackDisposes(i)
    \/ \E t \in Targets, e \in Events : CallbackEmits(t, e)
    \/ CallbackResumes

Next == Operation \/ Step \/ Reentry

Spec == Init /\ [][Next]_vars

\* The same program with directly registered callbacks that only return or
\* throw.
NextPlain == Operation \/ Step

SpecPlain == Init /\ [][NextPlain]_vars

(* ------------- prepareDockerSandbox and runDockerCommand --------------- *)

\* The registry state ensureSandboxProcessCleanupHandlers leaves alone.
registryOthers ==
    <<cleanupCallbacks, cleanupInProgress, exitCode, hasKill, exitedWith,
      reraised, stack, exc, procState, exiting, built, disposed, runs,
      passSnap, passRuns, passThrew, passes, disposeRuns, ops>>

\* A call of resolveSandboxConfig(config) on its own (config.ts:123).
CallResolveSandboxConfig ==
    /\ resolved.state = "none" /\ prepare.pc = "idle"
    /\ resolved' = ResolveSandboxConfig(config, host)
    /\ UNCHANGED <<registryVars, config, host, prepare, child, argVars, registrations>>

\* Mutant of AfterResolve: the flow goes on whatever resolve did.
AfterResolveGoesOn(r) == "ensure"

\* runner.ts:55: what resolveSandboxConfig throws leaves prepareDockerSandbox
\* (its promise is rejected); otherwise line 57 is next.
AfterResolve(r) == IF r.state = "returned" THEN "ensure" ELSE "rejected"

\* A call of log, when there is one: it returns, or a log that may throw throws.
LogOutcomes(l) == IF l = "throws" THEN {"returned", "threw"} ELSE {"returned"}

\* The image of the resolved configuration.
ResolvedImage == IF resolved.value = <<>> THEN <<>> ELSE resolved.value[1].image
\* The timeout of the resolved configuration for docker command cmd.
ResolvedTimeout(cmd) ==
    IF resolved.value = <<>> THEN 0
    ELSE IF cmd = "images" THEN resolved.value[1].preflightTimeoutMs
    ELSE resolved.value[1].pullTimeoutMs

\* runner.ts:51-55, the call of prepareDockerSandbox(config, log) up to the
\* return of resolveSandboxConfig.
PrepareDockerSandbox(l) ==
    /\ Idle /\ prepare.pc = "idle" /\ resolved.state = "none"
    /\ resolved' = ResolveSandboxConfig(config, host)
    /\ prepare' = [prepare EXCEPT !.pc = AfterResolve(resolved'), !.log = l,
                                  !.error = resolved'.error]
    /\ UNCHANGED <<registryVars, config, host, child, argVars, registrations>>

\* runner.ts:57, ensureSandboxProcessCleanupHandlers() on the host process.
PrepareEnsureHandlers ==
    /\ prepare.pc = "ensure"
    /\ IF AlreadyRegistered(RealProcess)
         THEN UNCHANGED <<registeredProcesses, listeners>>
         ELSE /\ registeredProcesses' = registeredProcesses \cup {RealProcess}
              /\ listeners' = InstallListeners(listeners, RealProcess)
    /\ ensureCalls' = [ensureCalls EXCEPT ![RealProcess] = @ + 1]
    /\ prepare' = [prepare EXCEPT !.pc = "check", !.ensured = TRUE]
    /\ UNCHANGED <<registryOthers, config, host, resolved, child, argVars, registrations>>

\* docker.ts:73-76, spawn('docker', args, ...) inside the executor of the
\* promise: it returns the subprocess, or it throws (the operating system
\* refuses the call), and what the executor throws rejects the promise of
\* runDockerCommand before the timer of line 81 is set.
SpawnOutcomes == {"started", "threw"}

\* runner.ts:59-60: the log line, then dockerImageExists starts
\* `docker images -q <image>` (docker.ts:23 and 73-87) and is awaited.  A log
\* that throws, or a spawn that throws (the rejection passes through
\* dockerImageExists, docker.ts:23), rejects prepareDockerSandbox with no
\* subprocess started.
PrepareCheckImage ==
    /\ prepare.pc = "check"
    /\ \E o \in LogOutcomes(prepare.log), sp \in SpawnOutcomes :
         IF o = "threw"
           THEN /\ prepare' = [prepare EXCEPT !.pc = "rejected", !.error = "log threw"]
                /\ UNCHANGED child
           ELSE IF sp = "threw"
           THEN /\ prepare' = [prepare EXCEPT !.pc = "rejected", !.error = "spawn threw"]
                /\ UNCHANGED child
           ELSE /\ child' = Spawned("images", ResolvedImage, ResolvedTimeout("images"), FALSE)
                /\ prepare' = [prepare EXCEPT !.pc = "awaitCheck",
                                              !.spawned = Append(@, "images")]
    /\ UNCHANGED <<registryVars, config, host, resolved, argVars, registrations>>

\* The registry state an uncaught exception leaves alone.
registryRest ==
    <<cleanupCallbacks, registeredProcesses, cleanupInProgress, listeners,
      hasKill, exitedWith, reraised, exc, procState, built, disposed, runs,
      passSnap, passRuns, passThrew, passes, disposeRuns, ensureCalls, ops>>

\* The subprocess of `child` still runs although the command has settled:
\* the kill of the timer failed (docker.ts:83, the error event settled the
\* command at lines 107-110) and no close event has come.  The continuations
\* of the caller run before any later event of the subprocess, so the caller
\* has gone on by then.
OutlivesCommand ==
    /\ child.state = "settled" /\ child.events = <<"error">>
    /\ child.timer = "fired"
    /\ prepare.pc \in {"returned", "rejected"}

\* docker.ts:89-96, a chunk arrives on stdout or stderr: it is kept, then
\* onProgress is called with it (runner.ts:64-69 for the pull: the chunk is
\* trimmed and logged unless empty).  The listeners are never removed, so a
\* chunk of a subprocess that outlives its command is handled the same way.
\* Nothing catches what the callback throws: the exception leaves the
\* listener uncaught, so the host process ends with status 1: it sets its
\* exit code, emits the exit event to the listeners installed at
\* runner.ts:57 (utils.ts:88-90 runs the cleanup pass) and ends.
ChildData(stream, chunk) ==
    /\ Idle /\ ~prepare.uncaught
    /\ \/ child.state = "running" /\ prepare.pc \in {"awaitCheck", "awaitPull"}
       \/ OutlivesCommand
    /\ Len(child.stdoutChunks) + Len(child.stderrChunks) < MaxChunks
    /\ child' = IF stream = "stdout"
                  THEN [child EXCEPT !.stdoutChunks = Append(@, chunk)]
                  ELSE [child EXCEPT !.stderrChunks = Append(@, chunk)]
    /\ \E o \in (IF child.onProgress /\ Trim(chunk) # <<>> /\ prepare.log # "none"
                   THEN LogOutcomes(prepare.log) ELSE {"returned"}) :
         IF o = "threw"
           THEN /\ prepare' = IF child.state = "running"
                                THEN [prepare EXCEPT !.pc = "crashed",
                                                     !.uncaught = TRUE,
                                                     !.error = "log threw"]
                                ELSE [prepare EXCEPT !.uncaught = TRUE]
                /\ exitCode' = [exitCode EXCEPT ![RealProcess] = 1]
                /\ exiting' = TRUE
                /\ stack' = <<[ExitFrame EXCEPT !.pc = "end"],
                              EmitFrame(RealProcess, "exit")>>
           ELSE /\ prepare' = prepare
                /\ UNCHANGED <<exitCode, exiting, stack>>
    /\ UNCHANGED <<registryRest, config, host, resolved, argVars, registrations>>

\* docker.ts:81-87, the timer fires unless cancelled: child.kill('SIGKILL').
\* The signal is delivered, or the subprocess had exited already and is not
\* signalled.
ChildTimeout(delivered) ==
    /\ child.timer = "armed"
    /\ prepare.pc \in {"awaitCheck", "awaitPull"}
    /\ child' = [child EXCEPT !.timer = "fired", !.killed = delivered]
    /\ prepare' = [prepare EXCEPT !.timedOut = @ \cup {child.cmd}]
    /\ UNCHANGED <<registryVars, config, host, resolved, argVars, registrations>>

\* docker.ts:98-105, the subprocess closes with an exit status, or with none
\* when a signal ended it.
ChildClose(code) ==
    /\ child.state = "running" /\ prepare.pc \in {"awaitCheck", "awaitPull"}
    /\ child.killed => code = Absent
    /\ child' = [child EXCEPT !.state = "settled",
                              !.events = Append(@, "close"),
                              !.timer = ClearTimeout(@),
                              !.result = Resolve(child, CloseResult(child, code))]
    /\ UNCHANGED <<registryVars, config, host, resolved, prepare, argVars, registrations>>

\* docker.ts:107-110, the error event of the subprocess: it could not be
\* started (nothing was read from it and no timer has fired by then), or the
\* kill of the timer failed (docker.ts:83: the signal was not delivered and
\* the subprocess runs on, whatever was read from it before).
ChildError ==
    /\ child.state = "running" /\ prepare.pc \in {"awaitCheck", "awaitPull"}
    /\ ~child.killed
    /\ \/ child.timer = "fired"
       \/ child.stdoutChunks = <<>> /\ child.stderrChunks = <<>>
    /\ child' = [child EXCEPT !.state = "settled",
                              !.events = Append(@, "error"),
                              !.timer = ClearTimeout(@),
                              !.result = Resolve(child, ErrorResult)]
    /\ UNCHANGED <<registryVars, config, host, resolved, prepare, argVars, registrations>>

\* docker.ts:98-105 once more: the close event follows the error event of a
\* subprocess that could not be started or could not be killed.  It comes
\* while the caller still awaits the command (both events are emitted in one
\* turn of the event loop) or after the caller has gone on with the result of
\* the error handler, which it leaves as it is.
ChildCloseAfterError(code) ==
    /\ ~prepare.uncaught
    /\ child.state = "settled" /\ child.events = <<"error">>
    /\ prepare.pc \in {"awaitCheck", "awaitPull", "returned", "rejected"}
    /\ child' = [child EXCEPT !.events = Append(@, "close"),
                              !.timer = ClearTimeout(@),
                              !.result = Resolve(child, CloseResult(child, code))]
    /\ UNCHANGED <<registryVars, config, host, resolved, prepare, argVars, registrations>>

\* Mutant of PullNeeded: the image is pulled whatever the check said.
PullNeededAlways(exists) == TRUE

\* runner.ts:62, if (!exists).
PullNeeded(exists) == ~exists

\* runner.ts:60-64: dockerImageExists returns (docker.ts:24); with the image
\* present the resolved configuration is returned (line 72), otherwise the log
\* line, then dockerPullImage starts `docker pull <image>` and is awaited.  A
\* log that throws at line 63, or a spawn that throws (docker.ts:73, the
\* rejection passes through dockerPullImage, docker.ts:35), rejects
\* prepareDockerSandbox with the pull not started.
PrepareAfterCheck ==
    /\ prepare.pc = "awaitCheck" /\ child.state = "settled"
    /\ LET exists == ImageExists(child.result) IN
       IF ~PullNeeded(exists)
         THEN /\ prepare' = [prepare EXCEPT !.pc = "returned", !.exists = Some(exists)]
              /\ UNCHANGED child
         ELSE \E o \in LogOutcomes(prepare.log), sp \in SpawnOutcomes :
                IF o = "threw"
                  THEN /\ prepare' = [prepare EXCEPT !.pc = "rejected",
                                                     !.exists = Some(exists),
                                                     !.error = "log threw"]
                       /\ UNCHANGED child
                  ELSE IF sp = "threw"
                  THEN /\ prepare' = [prepare EXCEPT !.pc = "rejected",
                                                     !.exists = Some(exists),
                                                     !.error = "spawn threw"]
                       /\ UNCHANGED child
                  ELSE /\ child' = Spawned("pull", ResolvedImage, ResolvedTimeout("pull"), TRUE)
                       /\ prepare' = [prepare EXCEPT !.pc = "awaitPull",
                                                     !.exists = Some(exists),
                                                     !.spawned = Append(@, "pull")]
    /\ UNCHANGED <<registryVars, config, host, resolved, argVars, registrations>>

\* docker.ts:39-42 and runner.ts:72: runDockerCommand resolves; a pull that
\* failed throws, otherwise the resolved configuration is returned.
PrepareAfterPull ==
    /\ prepare.pc = "awaitPull" /\ child.state = "settled"
    /\ prepare' = IF PullFailed(child.result)
                    THEN [prepare EXCEPT !.pc = "rejected",
                                         !.pullExit = Some(child.result.exitCode),
                                         !.error = "docker pull failed for image"]
                    ELSE [prepare EXCEPT !.pc = "returned",
                                         !.pullExit = Some(child.result.exitCode)]
    /\ UNCHANGED <<registryVars, config, host, resolved, child, argVars, registrations>>

\* The registry before any signal, with the host process as it starts.
RegistryQuiet ==
    /\ RegistryInit
    /\ exitCode = [t \in Targets |-> Undefined]
    /\ hasKill = [t \in Targets |-> TRUE]

\* resolveSandboxConfig on every configuration and host tried.
InitResolve ==
    /\ RegistryQuiet /\ ArgsIdle
    /\ config \in Configs /\ host \in Hosts
    /\ resolved = NotCalled /\ prepare = PrepareIdle /\ child = NoChild

NextResolve == CallResolveSandboxConfig

SpecResolve == InitResolve /\ [][NextResolve]_vars

\* prepareDockerSandbox, with the subprocesses' events, the caller's own
\* calls of ensureSandboxProcessCleanupHandlers and
\* registerSandboxCleanupCallback, and the steps of the exit of the host
\* process that an uncaught exception brings about.
InitPrepare ==
    /\ RegistryQuiet /\ ArgsIdle
    /\ config \in PrepareConfigs /\ host \in Hosts
    /\ resolved = NotCalled /\ prepare = PrepareIdle /\ child = NoChild

\* The next statement of the frame on top of the stack while the host process
\* exits: the exit event, its listener (utils.ts:88-90), the cleanup pass and
\* its callbacks, the end of the process.
ExitStep ==
    \/ EmitStep
    \/ HandlerRunCleanup
    \/ RunCleanupLoop
    \/ OnExitReturn
    \/ ProcessExit
    \/ CallbackReturns
    \/ CallbackThrows
    \/ RunCleanupCatch

NextPrepare ==
    \/ \E l \in Logs : PrepareDockerSandbox(l)
    \/ \E t \in {RealProcess} : EnsureSandboxProcessCleanupHandlers(t)
    \/ \E c \in UserCallbacks : RegisterSandboxCleanupCallback(c)
    \/ ExitStep
    \/ PrepareEnsureHandlers
    \/ PrepareCheckImage
    \/ \E stream \in {"stdout", "stderr"}, chunk \in Chunks : ChildData(stream, chunk)
    \/ \E delivered \in BOOLEAN : ChildTimeout(delivered)
    \/ \E code \in {Absent, Some(0), Some(1)} : ChildClose(code)
    \/ ChildError
    \/ \E code \in {Absent, Some(0), Some(1)} : ChildCloseAfterError(code)
    \/ PrepareAfterCheck
    \/ PrepareAfterPull

SpecPrepare == InitPrepare /\ [][NextPrepare]_vars

\* The same with time passing and a terminated subprocess closing: the timer
\* of docker.ts:81 fires unless cancelled, a subprocess whose timer has
\* fired, killed or found exited already, closes, and the call stack of an
\* exiting process runs to its end.
SpecPrepareFair ==
    /\ SpecPrepare
    /\ WF_vars(ExitStep)
    /\ WF_vars(\E delivered \in BOOLEAN : ChildTimeout(delivered))
    /\ WF_vars(child.timer = "fired"
                 /\ \E code \in {Absent, Some(0), Some(1)} : ChildClose(code))

\* buildDockerRunSpec on every resolved configuration and run options tried.
InitArgs ==
    /\ RegistryQuiet /\ FlowIdle
    /\ sandbox \in Sandboxes /\ options \in RunOptions
    /\ dockerArgs = <<>> /\ redactedArgs = <<>>

NextArgs == BuildDockerRunSpec

SpecArgs == InitArgs /\ [][NextArgs]_vars

\* The registry once ensureSandboxProcessCleanupHandlers has been called
\* for every target (utils.ts:64-68 and 136-138): each holds one listener per
\* event.  Nothing is registered yet, no exit code is set, and every target
\* has kill and pid.
InitOrder ==
    /\ cleanupCallbacks = <<>>
    /\ registeredProcesses = Targets
    /\ cleanupInProgress = FALSE
    /\ listeners = [t \in Targets |-> [e \in Events |-> 1]]
    /\ exitCode = [t \in Targets |-> Undefined]
    /\ hasKill = [t \in Targets |-> TRUE]
    /\ exitedWith = [t \in Targets |-> Undefined]
    /\ reraised = [t \in Targets |-> ""]
    /\ stack = <<>>
    /\ exc = FALSE
    /\ procState = "running"
    /\ exiting = FALSE
    /\ built = {}
    /\ disposed = {}
    /\ runs = [c \in Callbacks |-> 0]
    /\ passSnap = <<>>
    /\ passRuns = [c \in Callbacks |-> 0]
    /\ passThrew = FALSE
    /\ passes = [t \in Targets |-> [e \in Events |-> 0]]
    /\ disposeRuns = [i \in Invocations |-> 0]
    /\ ensureCalls = [t \in Targets |-> 1]
    /\ ops = 0
    /\ registrations = NoRegistrations
    /\ FlowIdle /\ ArgsIdle

\* The registry's operations from there on.
SpecOrder == InitOrder /\ [][Next]_vars

(* -------------------------------- claims ------------------------------- *)

Frames(fn) == {k \in 1..Len(stack) : stack[k].fn = fn}

\* disposeDockerRunSpec(i) was called and has returned.
DisposeReturned(i) ==
    /\ i \in disposed
    /\ \A k \in Frames("dispose") : stack[k].cb # i

\* The run of invocation i is over: its owner disposed it, or the host process
\* ended (normal exit, a signal, or the exit a handler forced).
Ended(i) == DisposeReturned(i) \/ procState = "dead"

\* C1: with the handlers installed on the host process, once the run of a
\* built invocation is over (dispose returned, or the host process ended by a
\* normal exit, SIGINT or SIGTERM) the removal of its container has been
\* invoked exactly once.
C1_RemovedExactlyOnce ==
    \A i \in built :
        (RealProcess \in registeredProcesses /\ Ended(i)) => runs[i] = 1

\* C2: every cleanup action is run at most once over the lifetime of the
\* process, whatever the sequence of register, unregister, dispose,
\* ensureHandlers and exit/SIGINT/SIGTERM triggers.
C2_AtMostOnce == \A c \in Callbacks : runs[c] <= 1

(* C3 *)

\* A handler is about to call runCleanup with no pass in progress.
PassStarts ==
    Running /\ IsHandler(Top) /\ Top.pc = "cleanup" /\ ~cleanupInProgress

\* Calls the pass of frame k has made so far: the callbacks taken off its
\* batch, but for one whose body has not started yet.
Called(k) ==
    Len(passSnap) - Len(stack[k].batch)
      - (IF k < Len(stack) /\ stack[k + 1].fn = "callback"
            /\ stack[k + 1].pc = "body" THEN 1 ELSE 0)

Occurrences(s, n, c) == Cardinality({j \in 1..n : s[j] = c})

PassOnSchedule ==
    \A k \in Frames("runCleanup") :
        /\ stack[k].batch
             = SubSeq(passSnap, Len(passSnap) - Len(stack[k].batch) + 1, Len(passSnap))
        /\ \A c \in Callbacks : passRuns[c] = Occurrences(passSnap, Called(k), c)

PassComplete ==
    \A c \in Callbacks : passRuns[c] = IF c \in SeqToSet(passSnap) THEN 1 ELSE 0

\* C3: a trigger of any of the three kinds, on any target with handlers
\* installed, starts one and the same pass over exactly the actions registered
\* at that moment; the pass calls them one by one, and when it completes it
\* has called each of them exactly once and no other action.
C3_SamePassEachOnce ==
    /\ [](PassOnSchedule /\ (~cleanupInProgress => PassComplete))
    /\ [][PassStarts =>
            /\ cleanupInProgress'
            /\ passSnap' = cleanupCallbacks
            /\ passRuns' = Zero
            /\ Len(stack') = Len(stack) + 1
            /\ stack'[Len(stack')].fn = "runCleanup"
            /\ stack'[Len(stack')].batch = cleanupCallbacks]_vars

\* A completed pass over at least one action, after each of the three kinds
\* of trigger has started a pass.
C3_Witness ==
    /\ Idle /\ ~cleanupInProgress
    /\ Len(passSnap) >= 1
    /\ \A e \in Events : \E t \in Targets : passes[t][e] >= 1
    /\ PassComplete

(* C4 *)

\* C4: a trigger raised from inside a cleanup action starts no second pass,
\* and the pass in progress runs every action of its batch before the process
\* ends.
C4_NestedTriggerIgnored ==
    /\ Cardinality(Frames("runCleanup")) <= 1
    /\ procState = "dead" => \A c \in SeqToSet(passSnap) : passRuns[c] >= 1

(* C5 *)

DisposeOrdered ==
    /\ \A k \in Frames("dispose") :
          /\ stack[k].pc = "unregister" => disposeRuns[stack[k].cb] = 0
          /\ stack[k].pc # "unregister" => stack[k].cb \notin SeqToSet(cleanupCallbacks)
    /\ \A k \in Frames("callback") :
          stack[k].by = "dispose" => stack[k].cb \notin SeqToSet(cleanupCallbacks)
    /\ \A i \in Invocations :
          DisposeReturned(i) => /\ disposeRuns[i] = 1
                                /\ i \notin SeqToSet(cleanupCallbacks)

\* C5: dispose first removes its own invocation's action from the pending set
\* and no other, then calls it once; a pass that starts after dispose has
\* returned does not have the action in its batch.
C5_DisposeUnregistersThenRuns ==
    /\ []DisposeOrdered
    /\ [][(Running /\ Top.fn = "dispose" /\ Top.pc = "unregister") =>
            SeqToSet(cleanupCallbacks') = SeqToSet(cleanupCallbacks) \ {Top.cb}]_vars
    /\ [][PassStarts =>
            \A i \in Invocations :
                DisposeReturned(i) => i \notin SeqToSet(passSnap')]_vars

\* Invocation 1 was disposed and ran once; a later pass ran invocation 2 only.
C5_Witness ==
    /\ Idle /\ ~cleanupInProgress
    /\ DisposeReturned(1) /\ runs[1] = 1
    /\ passSnap = <<2>> /\ passRuns[2] = 1

(* C6 *)

\* C6: the SIGINT handler of a target starts at most one pass: a second SIGINT
\* delivered to the target finds no listener when the first delivery is over,
\* and finds the pass in progress (which the guard protects) when it is raised
\* from inside the first one.
C6_SecondSigintRunsNothing ==
    \A t \in Targets :
        /\ passes[t]["SIGINT"] <= 1
        /\ \A k \in Frames("emit") :
              (stack[k].t = t /\ stack[k].ev = "SIGINT" /\ stack[k].left > 0)
                  => (passes[t]["SIGINT"] = 0 \/ cleanupInProgress)

\* The second SIGINT on a target whose first one ran a pass over an action.
C6_Witness ==
    \E t \in Targets :
        /\ passes[t]["SIGINT"] = 1 /\ ~cleanupInProgress
        /\ Len(stack) = 1 /\ Top.fn = "emit" /\ Top.t = t /\ Top.ev = "SIGINT"
        /\ Top.left = 0
        /\ Len(passSnap) >= 1 /\ PassComplete

(* C7 *)

\* C7: an exception of a cleanup action never reaches the handler that called
\* runCleanup, and a pass in which an action threw still calls every action of
\* its batch.
C7_ThrowDoesNotStopPass ==
    /\ (exc /\ stack # <<>>) => ~IsHandler(Top)
    /\ (passThrew /\ ~cleanupInProgress) => PassComplete
    /\ passThrew => PassOnSchedule

\* SIGINT on a target: the first action of the batch threw, the next one ran,
\* and the handler went on to set the exit code and re-raise.
C7_Witness ==
    /\ Idle /\ ~cleanupInProgress /\ passThrew
    /\ Len(passSnap) >= 2 /\ passSnap[1] \in UserCallbacks
    /\ passRuns[passSnap[2]] = 1
    /\ \E t \in Targets :
          /\ passes[t]["SIGINT"] = 1
          /\ exitCode[t] = SigintExitCode
          /\ reraised[t] = "SIGINT"

(* C8 *)

\* C8: the signal handlers set the exit code only after their pass, remove
\* their own listener only after the exit code is set, re-raise their own
\* signal only after the listener is gone, and call exit only without kill or
\* pid or after kill threw, never after a kill that succeeded.
C8_HandlerOrder ==
    [][\A t \in Targets :
        /\ exitCode'[t] # exitCode[t] =>
              /\ Running /\ IsSignalHandler(Top) /\ Top.t = t
              /\ Frames("runCleanup") = {} =>
                    passes[t][Top.ev] >= 1 /\ ~cleanupInProgress
        /\ \A e \in Signals : listeners'[t][e] < listeners[t][e] =>
              /\ Running /\ IsSignalHandler(Top) /\ Top.t = t /\ Top.ev = e
              /\ exitCode[t] # Undefined
        /\ reraised'[t] # reraised[t] =>
              /\ Running /\ IsSignalHandler(Top) /\ Top.t = t
              /\ reraised'[t] = Top.ev
              /\ hasKill[t]
              /\ listeners[t][Top.ev] = 0
              /\ exitedWith'[t] = exitedWith[t]
        /\ exitedWith'[t] # exitedWith[t] =>
              /\ Running /\ IsSignalHandler(Top) /\ Top.t = t
              /\ listeners[t][Top.ev] = 0
              /\ Top.by \in {"noKill", "killThrew"}
              /\ (Top.by = "noKill") <=> ~hasKill[t]]_vars

\* A mock with kill: SIGTERM was re-raised and the handler returned without
\* calling exit; at the later SIGINT kill threw and exit was called.
C8_Witness ==
    \E t \in Mocks :
        /\ Idle
        /\ reraised[t] = "SIGTERM"
        /\ exitCode[t] = SigtermExitCode
        /\ exitedWith[t] = SigtermExitCode
        /\ listeners[t]["SIGINT"] = 0 /\ listeners[t]["SIGTERM"] = 0

(* C9 *)

\* C9: a signal handler sets the exit code only when it is not a number, to
\* 130 for SIGINT and 143 for SIGTERM, leaves one that is set, and the direct
\* exit is called with the recorded exit code.
C9_ExitCodes ==
    [][\A t \in Targets :
        /\ exitCode'[t] # exitCode[t] =>
              /\ exitCode[t] = Undefined
              /\ Running /\ IsSignalHandler(Top) /\ Top.t = t
              /\ exitCode'[t] = IF Top.ev = "SIGINT" THEN SigintExitCode
                                                     ELSE SigtermExitCode
        /\ (Running /\ IsSignalHandler(Top) /\ Top.t = t /\ Top.pc = "exitCode") =>
              /\ exitCode'[t] # Undefined
              /\ exitCode[t] # Undefined => exitCode'[t] = exitCode[t]
        /\ exitedWith'[t] # exitedWith[t] =>
              exitedWith'[t] = exitCode[t] /\ exitCode[t] # Undefined]_vars

\* One target exited with the 143 its SIGTERM handler recorded, another with
\* the exit code that was set before its signal arrived.
C9_Witness ==
    \E t, u \in Targets :
        /\ passes[t]["SIGTERM"] = 1
        /\ exitCode[t] = SigtermExitCode /\ exitedWith[t] = SigtermExitCode
        /\ exitCode[u] = PresetExitCode /\ exitedWith[u] = PresetExitCode

(* C10 *)

\* C10: a target carries at most one listener of the registry per event; the
\* first ensureHandlers call on a target installs its three listeners,
\* whatever other targets are registered, and no other call changes the
\* listeners.
C10_OneListenerSetPerTarget ==
    /\ [](\A t \in Targets :
            /\ \A e \in Events : listeners[t][e] <= 1
            /\ listeners[t]["exit"] = IF ensureCalls[t] > 0 THEN 1 ELSE 0)
    /\ [][\A t \in Targets :
            ensureCalls'[t] # ensureCalls[t] =>
                IF ensureCalls[t] = 0
                  THEN \A e \in Events : listeners'[t][e] = 1
                  ELSE listeners' = listeners]_vars

\* Two distinct targets with the same field values, one of them ensured twice,
\* each with its own three listeners.
C10_Witness ==
    \E t, u \in Targets :
        /\ t # u
        /\ exitCode[t] = exitCode[u] /\ hasKill[t] = hasKill[u]
        /\ ensureCalls[t] = 2 /\ ensureCalls[u] = 1
        /\ \A e \in Events : listeners[t][e] = 1 /\ listeners[u][e] = 1

(* C11 *)

\* C11: when a cleanup pass completes (runCleanup clears the in-progress
\* flag), none of the actions the pass ran is left in the set of pending
\* cleanup actions.
C11_PassClearsRunActions ==
    [][(cleanupInProgress /\ ~cleanupInProgress')
         => \A c \in Callbacks :
               passRuns[c] > 0 => c \notin SeqToSet(cleanupCallbacks')]_vars

(* C12 *)

\* prepareDockerSandbox failed because resolveSandboxConfig threw.
ConfigRejected == prepare.pc = "rejected" /\ resolved.state = "thrown"

\* C12: when resolveSandboxConfig throws inside prepareDockerSandbox the error
\* reaches the caller at once: the step that fails changes nothing of the
\* registry and of the handlers, and afterwards prepareDockerSandbox has
\* started no subprocess (neither the presence check nor the pull) and has
\* installed no handler.
C12_ConfigErrorFailsFast ==
    /\ [](ConfigRejected =>
            /\ prepare.error = resolved.error
            /\ prepare.spawned = <<>> /\ child = NoChild
            /\ ~prepare.ensured)
    /\ [][(prepare.pc = "idle" /\ prepare'.pc # "idle" /\ resolved'.state = "thrown")
            => (prepare'.pc = "rejected" /\ UNCHANGED <<registryVars, child>>)]_vars
    /\ [][ConfigRejected => UNCHANGED <<prepare, child, resolved>>]_vars

\* A configuration was rejected after the caller had installed the handlers
\* itself.
C12_Witness ==
    ConfigRejected /\ config.enabled /\ ensureCalls[RealProcess] > 0

(* C13 *)

\* n is a number greater than zero.
StrictlyPositive(n) == n.finite /\ n.milli > 0

\* The configuration asks for a network mode, a limit or a user identifier
\* that is not allowed.
InputViolates(c) ==
    \/ c.network # Absent /\ c.network[1] \notin NetworkModes
    \/ c.resources.cpus # Absent /\ ~StrictlyPositive(c.resources.cpus[1])
    \/ c.resources.pidsLimit # Absent /\ ~StrictlyPositive(c.resources.pidsLimit[1])
    \/ c.user # Absent /\ ~(StrictlyPositive(c.user[1].uid) /\ StrictlyPositive(c.user[1].gid))

\* C13: a configuration returned by resolveSandboxConfig has one of the two
\* network modes, strictly positive cpus and pidsLimit and a user mapping
\* with strictly positive uid and gid; an input that asks for anything else
\* (an explicit uid or gid of 0 included) makes resolve throw, and what the
\* input asks for is returned as given.
C13_ResolvedWithinLimits ==
    /\ resolved.state = "returned" =>
          LET r == resolved.value[1] IN
            /\ r.network \in NetworkModes
            /\ StrictlyPositive(r.resources.cpus)
            /\ StrictlyPositive(r.resources.pidsLimit)
            /\ StrictlyPositive(r.user.uid) /\ StrictlyPositive(r.user.gid)
            /\ config.network # Absent => r.network = config.network[1]
            /\ config.resources.cpus # Absent => r.resources.cpus = config.resources.cpus[1]
            /\ config.resources.pidsLimit # Absent
                  => r.resources.pidsLimit = config.resources.pidsLimit[1]
            /\ config.user # Absent => r.user = config.user[1]
    /\ (resolved.state # "none" /\ InputViolates(config)) => resolved.state = "thrown"

\* resolve returned a configuration whose network, limits and user were all
\* given by the input.
C13_Witness ==
    /\ resolved.state = "returned"
    /\ config.network = Some("bridge") /\ config.user # Absent
    /\ config.resources.cpus # Absent /\ config.resources.pidsLimit # Absent

(* C14 *)

\* C14: for a configuration without a user mapping, resolve throws on a host
\* without getuid/getgid and on a host whose uid is 0; no configuration is
\* returned.
C14_NoHostIdentityFails ==
    (resolved.state # "none" /\ config.user = Absent /\ (~host.lookup \/ host.uid = 0))
      => (resolved.state = "thrown" /\ resolved.value = <<>>)

\* resolve threw because the host has no identity lookup.
C14_Witness ==
    /\ config.user = Absent /\ ~host.lookup
    /\ resolved.state = "thrown" /\ resolved.error = "uid/gid mapping not available"

(* C15 *)

\* The configuration names a user mapping with non-zero uid and gid.
ExplicitNonZeroUser(c) ==
    c.user # Absent /\ c.user[1].uid # Whole(0) /\ c.user[1].gid # Whole(0)

\* C15: for a configuration with an explicit non-zero user mapping the
\* outcome of resolve is the same on every host: without identity lookup,
\* with the superuser, or with an ordinary user.
C15_ExplicitUserIgnoresHost ==
    (resolved.state # "none" /\ ExplicitNonZeroUser(config))
      => \A h \in Hosts : ResolveSandboxConfig(config, h) = resolved

\* resolve returned the explicit mapping on a host without identity lookup.
C15_Witness ==
    /\ resolved.state = "returned" /\ ExplicitNonZeroUser(config)
    /\ ~host.lookup /\ resolved.value[1].user = config.user[1]

(* C16 *)

\* The order of the steps of prepareDockerSandbox and what its return and its
\* failure rest on: the handlers are installed only after resolve returned and
\* before any subprocess; the presence check is the first subprocess and the
\* pull the second, started only on a settled check that reported the image
\* absent; the configuration is returned only after the check reported the
\* image present or the pull exited with 0, and a pull that exited with
\* another status makes prepareDockerSandbox fail.
PrepareStepsInOrder ==
    /\ [](/\ prepare.ensured => resolved.state = "returned"
          /\ prepare.spawned \in {<<>>, <<"images">>, <<"images", "pull">>}
          /\ prepare.spawned # <<>> => prepare.ensured
          /\ Len(prepare.spawned) = 2 => prepare.exists = Some(FALSE)
          /\ prepare.exists = Some(TRUE) => prepare.pc = "returned"
          /\ prepare.pc = "returned"
                => (prepare.exists = Some(TRUE) \/ prepare.pullExit = Some(0))
          /\ prepare.pullExit \notin {Absent, Some(0)} => prepare.pc = "rejected")
    /\ [][(~prepare.ensured /\ prepare'.ensured)
            => (resolved.state = "returned" /\ prepare.spawned = <<>>
                /\ prepare'.spawned = <<>>)]_vars
    /\ [][(prepare'.spawned # prepare.spawned)
            => IF prepare.spawned = <<>>
                 THEN prepare.exists = Absent /\ prepare'.exists = Absent
                 ELSE child.cmd = "images" /\ child.state = "settled"
                      /\ ~ImageExists(child.result)]_vars

\* prepareDockerSandbox failed on the way to the pull: the log callback threw
\* on the line that announces it (runner.ts:63) or the pull could not be
\* spawned (docker.ts:73).
PullNotStarted ==
    prepare.pc = "rejected" /\ prepare.error \in {"log threw", "spawn threw"}

\* C16 as stated: prepareDockerSandbox resolves, then installs the handlers,
\* then starts the presence check, then the pull; the pull is started exactly
\* when the check reported the image absent, so that every report of absence
\* has the pull started; the configuration is returned only after the check
\* reported the image present or the pull exited with 0, and a pull that
\* exited with another status makes prepareDockerSandbox fail.
C16_PullExactlyWhenAbsent ==
    /\ PrepareStepsInOrder
    /\ [](prepare.exists = Some(FALSE) => Len(prepare.spawned) = 2)

\* C16, amended: the steps come in the order resolve, install handlers, check
\* image presence, pull; the pull is started only when the check reported the
\* image absent, and after such a report either the pull is started or
\* prepareDockerSandbox fails because the log callback threw or the pull
\* could not be spawned; the configuration is returned only after the check
\* reported the image present or the pull exited with 0, and a pull that
\* exited with another status makes prepareDockerSandbox fail.
C16_PrepareOrder ==
    /\ PrepareStepsInOrder
    /\ [](prepare.exists = Some(FALSE)
            => (Len(prepare.spawned) = 2 \/ PullNotStarted))

\* The image was absent, the pull exited with 0 and the configuration was
\* returned.
C16_Witness ==
    /\ prepare.pc = "returned" /\ prepare.spawned = <<"images", "pull">>
    /\ prepare.exists = Some(FALSE) /\ prepare.pullExit = Some(0)

(* C17 *)

\* C17: a presence check that ran past its timeout is never reported as a
\* result (image present or absent) from which the flow goes on to the pull
\* or to the return, and a pull that ran past its timeout is never followed
\* by the return of the configuration.
C17_TimeoutSurfacesAsError ==
    /\ "images" \in prepare.timedOut
          => (prepare.exists = Absent /\ "pull" \notin SeqToSet(prepare.spawned)
              /\ prepare.pc # "returned")
    /\ "pull" \in prepare.timedOut => prepare.pc # "returned"

(* C18 *)

\* C18: what the progress callback throws on a chunk never leaves the data
\* listener of runDockerCommand, so it never ends the run of the pull.
C18_ProgressThrowContained == ~prepare.uncaught /\ prepare.pc # "crashed"

(* C19 *)

\* The entries the merged environment is to hold: those of sandbox.env, and
\* the entries of options.env with a string value whose key sandbox.env does
\* not set.
ExpectedEnv ==
    SeqToSet(sandbox.env)
      \cup {e \in SeqToSet(options.env) :
               e.isString /\ \A f \in SeqToSet(sandbox.env) : f.key # e.key}

\* The key is not empty and holds neither '=' nor NUL.
LegalKey(key) == key # <<>> /\ \A k \in 1..Len(key) : key[k] \notin {"=", "NUL"}

\* The position of the image in the built vector: the command and its
\* arguments follow it.
ImageAt == Len(dockerArgs) - Len(options.args) - 1

\* The tokens between the fixed flags and the image.
EnvSection == SubSeq(dockerArgs, Len(FixedArgs(sandbox, options, 1)) + 1, ImageAt - 1)

\* The pairs of EnvSection that are ('--env', token).
PairsOf(token) ==
    {k \in 1..(Len(EnvSection) \div 2) :
        EnvSection[2 * k - 1] = <<"--env">> /\ EnvSection[2 * k] = token}

\* C19: in the built vector the tokens between the fixed flags and the image
\* are '--env', 'key=value' pairs, exactly one for every entry of the merged
\* environment whose key is legal and none for an entry whose key is empty or
\* holds '=' or NUL; on a key set by both, the value is that of sandbox.env.
C19_EnvFlagsFiltered ==
    dockerArgs # <<>> =>
        /\ dockerArgs[ImageAt] = sandbox.image
        /\ Len(EnvSection) = 2 * Cardinality({e \in ExpectedEnv : LegalKey(e.key)})
        /\ \A e \in ExpectedEnv :
              IF LegalKey(e.key)
                THEN Cardinality(PairsOf(e.key \o <<"=">> \o e.value)) = 1
                ELSE PairsOf(e.key \o <<"=">> \o e.value) # {}
                       => \E f \in ExpectedEnv :
                             /\ LegalKey(f.key)
                             /\ f.key \o <<"=">> \o f.value = e.key \o <<"=">> \o e.value
        /\ \A e \in SeqToSet(options.env), f \in SeqToSet(sandbox.env) :
              (e.key = f.key /\ e.isString /\ e.value # f.value)
                => PairsOf(e.key \o <<"=">> \o e.value) = {}

\* A vector was built from a merged environment with a legal key and an
\* illegal one.
C19_Witness ==
    /\ dockerArgs # <<>>
    /\ \E e \in ExpectedEnv : LegalKey(e.key)
    /\ \E e \in ExpectedEnv : ~LegalKey(e.key) /\ e.key # <<>>

(* C20 *)

\* The positions of the 'key=value' tokens of the environment flags.
EnvValuePositions ==
    {Len(FixedArgs(sandbox, options, 1)) + 2 * k : k \in 1..(Len(EnvSection) \div 2)}

\* What precedes the first '=' of a token.
KeyPart(token) ==
    SubSeq(token, 1, (CHOOSE k \in 1..Len(token) :
                         token[k] = "=" /\ \A j \in 1..(k - 1) : token[j] # "=") - 1)

\* C20: the redacted vector of a built vector has the same length, holds
\* key=<redacted> at the position of every 'key=value' token of an environment
\* flag and the token of the built vector at every other position (the
\* command's own arguments included), and redacting it again changes nothing.
C20_RedactionExact ==
    dockerArgs # <<>> =>
        /\ Len(redactedArgs) = Len(dockerArgs)
        /\ \A k \in 1..Len(dockerArgs) :
              redactedArgs[k] =
                  IF k \in EnvValuePositions
                    THEN KeyPart(dockerArgs[k]) \o <<"=", "<redacted>">>
                    ELSE dockerArgs[k]
        /\ RedactDockerArgsForLogging(redactedArgs) = redactedArgs

(* C21 *)

\* The runCleanup frame on top takes the next action off its batch and
\* calls it.
PassCalls(c) ==
    /\ Running /\ Top.fn = "runCleanup"
    /\ Len(stack') = Len(stack) + 1
    /\ stack'[Len(stack')].fn = "callback"
    /\ stack'[Len(stack')].cb = c

\* C21: a pass calls the actions in the order of their registration: the
\* batch of a starting pass lists the registered actions by the call that
\* registered each of them last (a further register call for a registered
\* action does not count, one after an unregister does), and the pass always
\* calls the first action left of its batch.
C21_PassInRegistrationOrder ==
    /\ [][PassStarts =>
            /\ stack'[Len(stack')].fn = "runCleanup"
            /\ stack'[Len(stack')].batch = registrations.order]_vars
    /\ [][\A c \in Callbacks :
            PassCalls(c) =>
                /\ Top.batch # <<>>
                /\ c = Head(Top.batch)
                /\ stack'[Len(stack)].batch = Tail(Top.batch)]_vars

\* A pass has run two actions, the second of which had been registered
\* first, unregistered and registered again after the first, a built
\* invocation's, was registered.
C21_Witness ==
    /\ Idle /\ ~cleanupInProgress
    /\ Len(passSnap) = 2
    /\ passSnap[1] \in Invocations
    /\ passSnap[2] \in registrations.back
    /\ passRuns[passSnap[1]] = 1 /\ passRuns[passSnap[2]] = 1

(* C22 *)

\* No activation of runCleanup is on the call stack of the running process.
NoPassExecuting == procState = "running" /\ Frames("runCleanup") = {}

\* A handler is about to call runCleanup while no pass is executing.
TriggerBetweenPasses ==
    NoPassExecuting /\ ~exc /\ stack # <<>> /\ IsHandler(Top) /\ Top.pc = "cleanup"

\* C22: while no pass is executing the in-progress flag is false, whether or
\* not actions of the last pass threw; so the runCleanup call of a handler
\* that finds no pass executing is not stopped by the guard: it starts a pass
\* over the actions registered then.
C22_FlagClearBetweenPasses ==
    /\ [](NoPassExecuting => ~cleanupInProgress)
    /\ [][TriggerBetweenPasses =>
            /\ cleanupInProgress'
            /\ passes'[Top.t][Top.ev] = passes[Top.t][Top.ev] + 1
            /\ Frames("runCleanup")' # {}
            /\ passSnap' = cleanupCallbacks]_vars

\* A handler is about to call runCleanup after a completed pass in which
\* every action threw.
C22_Witness ==
    /\ TriggerBetweenPasses
    /\ ~cleanupInProgress
    /\ passThrew /\ passSnap # <<>>
    /\ \A c \in SeqToSet(passSnap) : c \in UserCallbacks /\ passRuns[c] = 1
    /\ \E t \in Targets, e \in Events : passes[t][e] >= 1

(* C23 *)

\* The actions the pass started last has called so far.
RunByPass == {c \in Callbacks : passRuns[c] > 0}

\* C23: a pass runs the actions that were registered when it started and no
\* other: it calls nothing outside that batch, so not an action registered
\* while it runs; it calls the next action of the batch whether or not the
\* action is still registered, so also one that an earlier action of the pass
\* unregistered or disposed; and when it has completed, the actions it has
\* called are those of the batch.
C23_PassRunsItsSnapshot ==
    /\ [](RunByPass \subseteq SeqToSet(passSnap))
    /\ []((NoPassExecuting /\ ~exc) => RunByPass = SeqToSet(passSnap))
    /\ [][PassStarts => SeqToSet(passSnap') = SeqToSet(cleanupCallbacks)]_vars
    /\ [][(Running /\ Top.fn = "runCleanup" /\ Top.batch # <<>>) =>
            /\ PassCalls(Head(Top.batch))
            /\ stack'[Len(stack')].by = "pass"
            /\ UNCHANGED <<cleanupCallbacks, passSnap>>]_vars

\* The pass calls the cleanup of an invocation that was built by an action of
\* an earlier pass, which did not run it, and that an earlier action of this
\* pass has disposed: it is registered no more and has run once, in dispose.
C23_Witness ==
    /\ AtBody /\ Top.by = "pass"
    /\ Top.cb \in Invocations
    /\ Top.cb \in registrations.during
    /\ Top.cb \notin SeqToSet(cleanupCallbacks)
    /\ disposeRuns[Top.cb] = 1 /\ runs[Top.cb] = 1

(* C24 *)

\* The exit statuses a close event may carry: none after a signal, or a number.
CloseCodes == {Absent, Some(0), Some(1)}

\* The subprocess in `child` is the same before and after the step.
SameCommand == prepare'.spawned = prepare.spawned

\* The first close or error event settles the command with the exit status of
\* the close, 1 if it carries none, or with status 1 for a subprocess that
\* could not be started; a killed subprocess yields status 1.
CommandResultRight ==
    /\ [][\A code \in CloseCodes :
            (child.state = "running" /\ ChildClose(code)) =>
                /\ child'.state = "settled"
                /\ child'.result.exitCode = (IF code = Absent THEN 1 ELSE code[1])]_vars
    /\ [][(child.state = "running" /\ ChildError) =>
                /\ child'.state = "settled"
                /\ child'.result.exitCode = 1]_vars
    /\ []((child.state = "settled" /\ child.killed) => child.result.exitCode = 1)
    /\ [](child.state \in {"none", "running", "settled"})

\* Once settled the result stays, whatever event follows.
CommandResultFixed ==
    [][(child.state = "settled" /\ SameCommand) =>
            /\ child'.state = "settled"
            /\ child'.result = child.result]_vars

\* A settled command has no timer armed and is not killed afterwards.
CommandTimerCancelled ==
    /\ [](child.state = "settled" => child.timer # "armed")
    /\ [][(child.state = "settled" /\ SameCommand) =>
            /\ child'.killed = child.killed
            /\ child'.timer = child.timer]_vars

\* No call of runDockerCommand ends with its promise rejected.
CommandNeverRejects == [](prepare.error # "spawn threw")

\* A started command settles.
CommandSettles == (child.state = "running") ~> (child.state = "settled")

\* C24: every runDockerCommand started settles with a result and has no
\* rejected outcome, given that the timer fires and a terminated subprocess
\* closes; the result carries the exit status of the close event, or 1 for a
\* killed subprocess or one that could not be started; it is that of the
\* first of the close and error events; and either event cancels the timer,
\* so no kill follows the settling.
C24_CommandCompletes ==
    /\ CommandResultRight
    /\ CommandResultFixed
    /\ CommandTimerCancelled
    /\ CommandNeverRejects
    /\ CommandSettles

====
